---- MODULE Spec2Model ----
(***************************************************************************)
(* Conversation orchestration of the watssabi intake relay:                *)
(*   src/src/services/conversation_service.py  (ConversationService)       *)
(*   src/src/services/session_manager.py       (SessionManager on Redis)   *)
(*   src/src/services/ai_client.py             (AIClient)                  *)
(*   src/src/crud/repository.py, src/src/db/models.py (durable records)    *)
(*   src/src/api/endpoints/twilio_webhook.py   (handle_twilio_webhook)     *)
(*                                                                         *)
(* One turn is one call of handle_twilio_webhook.  The handler is a        *)
(* coroutine: between two awaits it runs without interruption, so every    *)
(* action below is the code from one await to the next.                    *)
(***************************************************************************)
EXTENDS Integers, Sequences, FiniteSets, TLC

VARIABLES
    redis,           \* the Redis key space: key -> [present, value, expire_at]
    redis_up,        \* FALSE while Redis commands raise RedisError
    now,             \* wall clock, in seconds
    users,           \* table users           (src/src/db/models.py:14-28)
    conversations,   \* table conversations   (src/src/db/models.py:31-57)
    collected_data,  \* table collected_data  (src/src/db/models.py:60-78)
    turn,            \* the local state of each in-flight webhook call
    nturns           \* number of webhook calls received so far

vars == <<redis, redis_up, now, users, conversations, collected_data, turn, nturns>>

----------------------------------------------------------------------------
(* Bounds of the model *)

MaxTurns == 2        \* webhook calls received in one behaviour
MaxTicks == 2        \* clock ticks in one behaviour
MaxInFlight == 2     \* webhook calls that can be in flight together
MaxDialogue == 3     \* webhook calls received in one behaviour of a dialogue

(* Program constants *)

SessionTTL == 3600   \* self.session_ttl

TickStep == SessionTTL \div 2

Slots == 1..MaxInFlight

UserIds == {"whatsapp:+100", "whatsapp:+200"}

(* The bodies of the inbound messages, in the order they arrive.  The code  *)
(* never looks into a body, so one body per arrival is enough; they differ *)
(* so that a message stored out of place shows.                            *)
Bodies == <<"Hi", "John", "john@example.com", "done">>

Body(n) == Bodies[((n - 1) % Len(Bodies)) + 1]

FALLBACK_REPLY == "Sorry, I encountered a problem. Please try again later."

DEFAULT_REPLY == "Thank you! Your information has been saved."

----------------------------------------------------------------------------
(* JSON values, as Python holds them after json.loads.  Every value is a   *)
(* record of one shape: kind, lit (the text of a scalar), members (the     *)
(* key/value pairs of an object in order, the elements of an array).       *)

JStr(s) == [kind |-> "string", lit |-> s, members |-> <<>>]

JNum(s) == [kind |-> "number", lit |-> s, members |-> <<>>]

JNull == [kind |-> "null", lit |-> "null", members |-> <<>>]

JObj(ms) == [kind |-> "object", lit |-> "", members |-> ms]

Member(k, v) == [key |-> k, val |-> v]

(* Python's Optional[...]: None, or a value. *)
None == [is_none |-> TRUE, v |-> <<>>]

Some(x) == [is_none |-> FALSE, v |-> x]

NoneStr == [is_none |-> TRUE, v |-> ""]

(* isinstance(v, dict) *)
IsDict(v) == v.kind = "object"

(* isinstance(v, str) *)
IsStr(v) == v.kind = "string"

(* "is not None" in place of the truth test *)
Truthy_IsNotNone(v) == v.kind # "null"

(* bool(v): empty containers, the empty string, zero, false and None are falsy *)
Truthy(v) ==
    CASE v.kind \in {"object", "array"} -> v.members # <<>>
      [] v.kind = "string" -> v.lit # ""
      [] v.kind = "number" -> v.lit \notin {"0", "0.0", "-0"}
      [] v.kind = "true" -> TRUE
      [] OTHER -> FALSE

HasKey(v, k) == \E i \in 1..Len(v.members) : v.members[i].key = k

(* dict.get(k, default) on a dict *)
DictGet(v, k, default) ==
    IF HasKey(v, k)
    THEN v.members[CHOOSE i \in 1..Len(v.members) : v.members[i].key = k].val
    ELSE default

(* str.strip() == "" for the strings of the model *)
WhitespaceOnly == {"", " ", "  "}

StripIsEmpty(s) == s \in WhitespaceOnly

(* json.dumps(v) with Python's default separators ", " and ": ".  The      *)
(* strings of the model hold no character that json.dumps escapes.         *)
RECURSIVE JsonDumps(_)
RECURSIVE DumpItems(_, _, _)

DumpItems(ms, i, withKeys) ==
    IF i > Len(ms) THEN ""
    ELSE (IF i > 1 THEN ", " ELSE "")
         \o (IF withKeys THEN "\"" \o ms[i].key \o "\": " ELSE "")
         \o JsonDumps(ms[i].val)
         \o DumpItems(ms, i + 1, withKeys)

JsonDumps(v) ==
    CASE v.kind = "string" -> "\"" \o v.lit \o "\""
      [] v.kind = "object" -> "{" \o DumpItems(v.members, 1, TRUE) \o "}"
      [] v.kind = "array" -> "[" \o DumpItems(v.members, 1, FALSE) \o "]"
      [] OTHER -> v.lit

----------------------------------------------------------------------------
(* The texts the language model can answer with (already stripped by       *)
(* get_ai_response), and json.loads on each of them.                       *)

T_PLAIN == "Hello! What's your name?"

T_DONE_DATA == "{\"reply\":\"Thanks John!\",\"data\":{\"full_name\":\"John\"}}"

T_DONE_EMPTY == "{\"reply\":\"Done\",\"data\":{}}"

T_DONE_NODATA == "{\"reply\":\"Bye\"}"

T_OTHER_OBJ == "{\"note\":\"x\"}"

T_DATA_STR == "{\"reply\":\"Ok\",\"data\":\"John\"}"

T_NUMBER == "42"

T_BLANK_REPLY == "{\"reply\":\"  \",\"data\":{\"full_name\":\"John\"}}"

T_EMPTY_REPLY == "{\"reply\":\"\",\"data\":{}}"

T_NUM_REPLY == "{\"reply\":5}"

AITexts == {T_PLAIN, T_DONE_DATA, T_DONE_EMPTY, T_DONE_NODATA,
            T_OTHER_OBJ, T_DATA_STR, T_NUMBER,
            T_BLANK_REPLY, T_EMPTY_REPLY, T_NUM_REPLY}

Decoded(v) == [ok |-> TRUE, value |-> v]

JSONDecodeError == [ok |-> FALSE, value |-> JNull]

(* json.loads(text) *)
JsonLoads(text) ==
    CASE text = T_DONE_DATA ->
            Decoded(JObj(<<Member("reply", JStr("Thanks John!")),
                           Member("data", JObj(<<Member("full_name", JStr("John"))>>))>>))
      [] text = T_DONE_EMPTY ->
            Decoded(JObj(<<Member("reply", JStr("Done")), Member("data", JObj(<<>>))>>))
      [] text = T_DONE_NODATA ->
            Decoded(JObj(<<Member("reply", JStr("Bye"))>>))
      [] text = T_OTHER_OBJ ->
            Decoded(JObj(<<Member("note", JStr("x"))>>))
      [] text = T_DATA_STR ->
            Decoded(JObj(<<Member("reply", JStr("Ok")), Member("data", JStr("John"))>>))
      [] text = T_NUMBER -> Decoded(JNum("42"))
      [] text = T_BLANK_REPLY ->
            Decoded(JObj(<<Member("reply", JStr("  ")),
                           Member("data", JObj(<<Member("full_name", JStr("John"))>>))>>))
      [] text = T_EMPTY_REPLY ->
            Decoded(JObj(<<Member("reply", JStr("")), Member("data", JObj(<<>>))>>))
      [] text = T_NUM_REPLY ->
            Decoded(JObj(<<Member("reply", JNum("5"))>>))
      [] OTHER -> JSONDecodeError

----------------------------------------------------------------------------
(* Redis, as SessionManager uses it: GET, SET with EX, DEL.  An entry past *)
(* its expiry is gone for every reader.                                    *)

(* one key for every user *)
get_session_key_Shared(user_id) == "session:"

get_session_key(user_id) == "session:" \o user_id

Keys == {get_session_key(u) : u \in UserIds}

NoEntry == [present |-> FALSE, value |-> <<>>, expire_at |-> 0]

(* an entry read whatever its age *)
RedisGet_NeverExpires(key) ==
    IF redis[key].present THEN Some(redis[key].value) ELSE None

RedisGet(key) ==
    IF redis[key].present /\ now < redis[key].expire_at
    THEN Some(redis[key].value)
    ELSE None

(* the last exchange added to what the key holds, nothing overwritten *)
RedisSet_Merged(key, value, ex) ==
    [redis EXCEPT ![key] =
        [present |-> TRUE,
         value |-> IF redis[key].present /\ now < redis[key].expire_at
                   THEN redis[key].value \o SubSeq(value, Len(value) - 1, Len(value))
                   ELSE value,
         expire_at |-> now + ex]]

RedisSet(key, value, ex) ==
    [redis EXCEPT ![key] = [present |-> TRUE, value |-> value, expire_at |-> now + ex]]

(* every key removed, not the one named *)
RedisDelete_AllKeys(key) == [k \in Keys |-> NoEntry]

RedisDelete(key) == [redis EXCEPT ![key] = NoEntry]

(* json.dumps / json.loads of a history, the list of {role, content}       *)
(* dicts: the stored text is modelled as the list of (role, content) pairs.*)
(* the history written without its last message *)
DumpHistory_LastDropped(history) ==
    [i \in 1..(Len(history) - 1) |-> <<history[i].role, history[i].content>>]

DumpHistory(history) ==
    [i \in 1..Len(history) |-> <<history[i].role, history[i].content>>]

(* the two fields of a message read in each other's place *)
LoadHistory_FieldsSwapped(data) ==
    [i \in 1..Len(data) |-> [role |-> data[i][2], content |-> data[i][1]]]

LoadHistory(data) ==
    [i \in 1..Len(data) |-> [role |-> data[i][1], content |-> data[i][2]]]

Msg(role, content) == [role |-> role, content |-> content]

(* the entry read without regard to the RedisError *)
get_session_FaultIgnored(user_id) ==
    LET session_data == RedisGet(get_session_key(user_id))
    IN  IF ~session_data.is_none THEN Some(LoadHistory(session_data.v)) ELSE None

(* SessionManager.get_session: the history, or None when there is no entry *)
(* or Redis raised.                                                        *)
get_session(user_id) ==
    LET key == get_session_key(user_id)
        session_data == RedisGet(key)
    IN  IF ~redis_up THEN None
        ELSE IF ~session_data.is_none THEN Some(LoadHistory(session_data.v))
        ELSE None

(* the expiry passed as milliseconds where Redis takes seconds *)
set_session_Millis(user_id, history) ==
    RedisSet(get_session_key(user_id), DumpHistory(history), SessionTTL \div 1000)

(* SessionManager.set_session: the key space after the call *)
set_session(user_id, history) ==
    LET key == get_session_key(user_id)
        serialized_history == DumpHistory(history)
    IN  IF ~redis_up THEN redis
        ELSE RedisSet(key, serialized_history, SessionTTL)

(* the delete addressed to the bare user id, not to the session key *)
delete_session_BareKey(user_id) == [redis EXCEPT ![user_id] = NoEntry]

(* SessionManager.delete_session: the key space after the call *)
delete_session(user_id) ==
    LET key == get_session_key(user_id)
    IN  IF ~redis_up THEN redis ELSE RedisDelete(key)

----------------------------------------------------------------------------
(* Durable records.  Primary keys are the server-side gen_random_uuid()    *)
(* defaults, modelled as the row's position in its table.                  *)

UserRow(whatsapp_id) == [user_id |-> Len(users) + 1, whatsapp_id |-> whatsapp_id]

(* status left to the column default *)
ConversationRow_DefaultStatus(user_id, status, history) ==
    [conversation_id |-> Len(conversations) + 1, user_id |-> user_id,
     status |-> "ongoing", conversation_history |-> history]

ConversationRow(user_id, status, history) ==
    [conversation_id |-> Len(conversations) + 1, user_id |-> user_id,
     status |-> status, conversation_history |-> history]

(* the two foreign keys in each other's place *)
CollectedDataRow_SwappedKeys(user_id, conversation_id, data) ==
    [data_id |-> Len(collected_data) + 1, conversation_id |-> user_id,
     user_id |-> conversation_id, data |-> data]

CollectedDataRow(user_id, conversation_id, data) ==
    [data_id |-> Len(collected_data) + 1, conversation_id |-> conversation_id,
     user_id |-> user_id, data |-> data]

(* the where clause missing: the first row of the table *)
SelectUser_First(whatsapp_id) == IF users = <<>> THEN 0 ELSE users[1].user_id

(* the lookup finding no row, whatever the table holds *)
SelectUser_NeverFound(whatsapp_id) == 0

(* select(User).where(User.whatsapp_id == user_id) ... .first(): the       *)
(* user_id of the row, 0 for None                                          *)
SelectUser(whatsapp_id) ==
    IF \E i \in 1..Len(users) : users[i].whatsapp_id = whatsapp_id
    THEN users[CHOOSE i \in 1..Len(users) : users[i].whatsapp_id = whatsapp_id].user_id
    ELSE 0

(* the column declared without unique=True *)
UniqueViolation_Unenforced(whatsapp_id) == FALSE

(* The unique constraint of users.whatsapp_id *)
UniqueViolation(whatsapp_id) ==
    \E i \in 1..Len(users) : users[i].whatsapp_id = whatsapp_id

----------------------------------------------------------------------------
(* AIClient.get_ai_response.                                               *)

(* The system directive (its opening words stand for the whole text). *)
SYSTEM_PROMPT == "You are Watssabii, a friendly virtual host running a short intake plus survey"

(* the system directive inserted into the list the caller passed *)
BuildMessages_InPlace(system_prompt, conversation_history) ==
    [messages |-> <<Msg("system", system_prompt)>> \o conversation_history,
     conversation_history |-> <<Msg("system", system_prompt)>> \o conversation_history]

(* the history sent without a system directive *)
BuildMessages_HistoryOnly(system_prompt, conversation_history) ==
    [messages |-> conversation_history, conversation_history |-> conversation_history]

(* messages = [{"role": "system", ...}]; messages.extend(conversation_history): *)
(* the list sent to the backend, and the list the caller passed, which the *)
(* function does not touch.                                                *)
BuildMessages(system_prompt, conversation_history) ==
    [messages |-> <<Msg("system", system_prompt)>> \o conversation_history,
     conversation_history |-> conversation_history]

(* What chat.completions.create does: it raises APIError (backend error,   *)
(* timeout), answers with no choices, or answers with a first choice whose *)
(* content is None or a text.                                              *)
RaisedAPIError == [kind |-> "APIError", content |-> NoneStr]

NoChoices == [kind |-> "no_choices", content |-> NoneStr]

Choice(content) == [kind |-> "choice", content |-> content]

NoOutcome == [kind |-> "", content |-> NoneStr]

T_PADDED == "  Hello! What's your name? "

(* str.strip() for the texts of the model *)
Strip(s) ==
    IF s \in WhitespaceOnly THEN ""
    ELSE IF s = T_PADDED THEN T_PLAIN
    ELSE s

(* The outcomes of the backend.  In the general case: an error, content   *)
(* of white space, and the texts that differ in how the call branches and  *)
(* in what it persists.  Where the client and the reply are examined: all  *)
(* outcomes and all texts.                                                 *)
CoreTexts == {T_PLAIN, T_DONE_DATA, T_DONE_EMPTY, T_DONE_NODATA,
              T_OTHER_OBJ, T_DATA_STR, T_NUMBER}

BackendOutcomes ==
    {RaisedAPIError, Choice(Some("  "))} \cup {Choice(Some(s)) : s \in CoreTexts}

AllBackendOutcomes ==
    BackendOutcomes
    \cup {Choice(Some(s)) : s \in AITexts}
    \cup {NoChoices, Choice(NoneStr), Choice(Some("")), Choice(Some(T_PADDED))}

(* empty content passed on as the empty string *)
get_ai_response_EmptyKept(outcome) ==
    IF outcome.kind # "choice" \/ outcome.content.is_none
    THEN NoneStr
    ELSE Some(Strip(outcome.content.v))

(* The value get_ai_response returns: None after APIError, after the       *)
(* IndexError of choices[0] and for content that is None or empty, the     *)
(* stripped content otherwise.                                             *)
get_ai_response(outcome) ==
    IF outcome.kind = "APIError" THEN NoneStr
    ELSE IF outcome.kind = "no_choices" THEN NoneStr
    ELSE IF outcome.content.is_none \/ outcome.content.v = "" THEN NoneStr
    ELSE Some(Strip(outcome.content.v))

(* What get_ai_response can return: None (provider error, no content), the *)
(* empty string (content of white space only, stripped), or a text.        *)
AIResponses == {get_ai_response(outcome) : outcome \in AllBackendOutcomes}

----------------------------------------------------------------------------
(* The local state of one webhook call.  pre, load_at, ended_at, calls,    *)
(* faults and retry_of are history variables: the stores as the call found *)
(* them, the times of its session load and of its end, the calls it has    *)
(* made so far, those of its SessionManager calls in which Redis raised,   *)
(* and, for an event delivered again, the exception that ended the earlier *)
(* delivery.  signature and well_formed record the request as it came in;  *)
(* backend, sent and arg_after record the model call: what the             *)
(* backend did, the message list it was sent, and the list passed to       *)
(* get_ai_response as that call left it.                                   *)

Stores == [redis |-> redis, users |-> users, conversations |-> conversations,
           collected_data |-> collected_data]

NoResponse == [status |-> 0, message |-> ""]

IdleTurn ==
    [pc |-> "idle", user_id |-> "", message |-> "", history |-> <<>>,
     ai_response |-> NoneStr, final_data |-> JNull, user |-> 0, conversation |-> 0,
     final_reply |-> "", branch |-> "", outcome |-> "pending", exc |-> "",
     result |-> NoneStr, response |-> NoResponse, calls |-> <<>>, load_at |-> 0,
     ended_at |-> 0, retry_of |-> "", faults |-> {},
     backend |-> NoOutcome, sent |-> <<>>, arg_after |-> <<>>,
     signature |-> NoneStr, well_formed |-> TRUE,
     trail |-> [u \in UserIds |-> <<>>],
     pre |-> [redis |-> [k \in Keys |-> NoEntry], users |-> <<>>,
              conversations |-> <<>>, collected_data |-> <<>>]]

Free(t) == turn[t].pc \in {"idle", "done"}

(* What a call of process_message left behind when it ended: the branch it *)
(* took, how it ended, the message it was called with, the text the model  *)
(* gave it and what it returned.                                           *)
Ended(t) ==
    [branch |-> turn[t].branch, outcome |-> turn[t].outcome,
     message |-> turn[t].message, raw |-> turn[t].ai_response,
     result |-> turn[t].result]

(* The ended calls of each user, in the order they were made, as the       *)
(* worker that ran them one after another saw them.                        *)
Trail(t) ==
    IF turn[t].pc = "done"
    THEN [turn[t].trail EXCEPT ![turn[t].user_id] = Append(@, Ended(t))]
    ELSE turn[t].trail

(* the SessionManager calls that met a RedisError, after one more call *)
Faulted(faults, called) == IF redis_up THEN faults ELSE faults \cup {called}

(* handle_twilio_webhook after process_message: the TwiML reply, or the    *)
(* framework's answer to an exception no handler catches.                  *)
HandlerResponse(outcome, ai_reply) ==
    IF outcome = "raised" THEN [status |-> 500, message |-> ""]
    ELSE IF ~ai_reply.is_none /\ ai_reply.v # ""
         THEN [status |-> 200, message |-> ai_reply.v]
         ELSE [status |-> 200, message |-> FALLBACK_REPLY]

(* a RedisError met by the last call leaving process_message *)
Return_FaultRaised(t, r, called) ==
    [turn[t] EXCEPT !.pc = "done",
                    !.outcome = IF redis_up THEN "returned" ELSE "raised",
                    !.exc = IF redis_up THEN @ ELSE "RedisError",
                    !.result = IF redis_up THEN r ELSE NoneStr,
                    !.calls = Append(@, called), !.ended_at = now,
                    !.response = HandlerResponse(IF redis_up THEN "returned" ELSE "raised",
                                                 IF redis_up THEN r ELSE NoneStr)]

(* process_message returns value r (None or a text) *)
Return(t, r, called) ==
    [turn[t] EXCEPT !.pc = "done", !.outcome = "returned", !.result = r,
                    !.calls = Append(@, called), !.ended_at = now,
                    !.response = HandlerResponse("returned", r)]

(* the step that raised tried once more before the exception is let out *)
Raise_Retried(t, e, called) ==
    IF \A i \in 1..Len(turn[t].calls) : turn[t].calls[i] # called
    THEN [turn[t] EXCEPT !.calls = Append(@, called)]
    ELSE [turn[t] EXCEPT !.pc = "done", !.outcome = "raised", !.exc = e,
                         !.calls = Append(@, called), !.ended_at = now,
                         !.response = HandlerResponse("raised", NoneStr)]

(* the exception caught and logged, the call going on to the clean-up *)
Raise_Swallowed(t, e, called) ==
    [turn[t] EXCEPT !.pc = "delete_session", !.exc = e, !.calls = Append(@, called)]

(* an exception leaves process_message *)
Raise(t, e, called) ==
    [turn[t] EXCEPT !.pc = "done", !.outcome = "raised", !.exc = e,
                    !.calls = Append(@, called), !.ended_at = now,
                    !.response = HandlerResponse("raised", NoneStr)]

(* The signature RequestValidator computes for a request: an HMAC of the   *)
(* URL and the form fields under the auth token, modelled as a text that   *)
(* names the three.                                                        *)
TWILIO_AUTH_TOKEN == "auth-token"

Sign(token, from, body) == token \o "/" \o from \o "/" \o body

(* any signature that is not empty accepted *)
validate_twilio_request_Unchecked(signature, from, body) ==
    IF signature.is_none \/ signature.v = "" THEN 400 ELSE 200

(* validate_twilio_request: the status the dependency ends the request     *)
(* with, 200 standing for the return of the form data.                     *)
validate_twilio_request(signature, from, body) ==
    IF signature.is_none \/ signature.v = "" THEN 400
    ELSE IF signature.v # Sign(TWILIO_AUTH_TOKEN, from, body) THEN 403
    ELSE 200

(* A request from sender u with the given X-Twilio-Signature header (None  *)
(* when there is none) reaches the endpoint; well_formed says whether the  *)
(* form has the fields of TwilioWebhookRequest.  The request is refused    *)
(* with 400, 403 or 422, or the handler calls process_message(u, body).    *)
(* The call takes the lowest free slot.  At most limit requests arrive;     *)
(* trail is the record of ended calls that goes with the new call.         *)
DeliverWithin(limit, trail, t, u, signature, well_formed) ==
    /\ nturns < limit
    /\ Free(t)
    /\ \A s \in Slots : s < t => ~Free(s)
    /\ LET body == Body(nturns + 1)
           status == validate_twilio_request(signature, u, body)
           refused == IF status # 200 THEN status
                      ELSE IF ~well_formed THEN 422
                      ELSE 0
       IN  turn' = [turn EXCEPT ![t] =
                     IF refused # 0
                     THEN [IdleTurn EXCEPT !.pc = "done", !.user_id = u,
                                           !.message = body, !.outcome = "refused",
                                           !.signature = signature,
                                           !.well_formed = well_formed,
                                           !.response = [status |-> refused, message |-> ""],
                                           !.ended_at = now, !.trail = trail,
                                           !.pre = Stores]
                     ELSE [IdleTurn EXCEPT !.pc = "get_session", !.user_id = u,
                                           !.message = body,
                                           !.signature = signature,
                                           !.trail = trail, !.pre = Stores]]
    /\ nturns' = nturns + 1
    /\ UNCHANGED <<redis, redis_up, now, users, conversations, collected_data>>

(* up to MaxTurns requests, no record of the ended calls kept *)
Deliver(t, u, signature, well_formed) ==
    DeliverWithin(MaxTurns, IdleTurn.trail, t, u, signature, well_formed)

(* A verified, well-formed webhook event from user u. *)
Receive(t, u) ==
    Deliver(t, u, Some(Sign(TWILIO_AUTH_TOKEN, u, Body(nturns + 1))), TRUE)

(* One call at a time: the event arrives while no other call is in flight. *)
ReceiveSerial(t, u) ==
    /\ \A s \in Slots : Free(s)
    /\ Receive(t, u)

(* One call at a time, the record of the ended calls kept. *)
ReceiveRecorded(limit, t, u) ==
    /\ \A s \in Slots : Free(s)
    /\ DeliverWithin(limit, Trail(t), t, u,
                     Some(Sign(TWILIO_AUTH_TOKEN, u, Body(nturns + 1))), TRUE)

(* The sender delivers again the event of a call it saw fail (the answer   *)
(* was a 500): the handler runs process_message with the same user and     *)
(* body.                                                                   *)
Redeliver(t) ==
    /\ nturns < MaxTurns
    /\ \A s \in Slots : Free(s)
    /\ turn[t].pc = "done"
    /\ turn[t].outcome = "raised"
    /\ turn' = [turn EXCEPT ![t] =
                 [IdleTurn EXCEPT !.pc = "get_session", !.user_id = turn[t].user_id,
                                  !.message = turn[t].message,
                                  !.signature = turn[t].signature,
                                  !.retry_of = turn[t].exc, !.pre = Stores]]
    /\ nturns' = nturns + 1
    /\ UNCHANGED <<redis, redis_up, now, users, conversations, collected_data>>

(* the user message put in front of the loaded history *)
GetSession_MessageFirst(t) ==
    /\ turn[t].pc = "get_session"
    /\ LET loaded == get_session(turn[t].user_id)
           history == IF loaded.is_none THEN <<>> ELSE loaded.v
       IN  turn' = [turn EXCEPT ![t].pc = "get_ai_response",
                                ![t].history = <<Msg("user", turn[t].message)>> \o history,
                                ![t].load_at = now,
                                ![t].faults = Faulted(@, "get_session"),
                                ![t].calls = Append(@, "get_session")]
    /\ UNCHANGED <<redis, redis_up, now, users, conversations, collected_data, nturns>>

(* the User row created when the first message arrives *)
GetSession_EagerUser(t) ==
    /\ turn[t].pc = "get_session"
    /\ LET loaded == get_session(turn[t].user_id)
           history == IF loaded.is_none THEN <<>> ELSE loaded.v
       IN  turn' = [turn EXCEPT ![t].pc = "get_ai_response",
                                ![t].history = Append(history, Msg("user", turn[t].message)),
                                ![t].load_at = now,
                                ![t].faults = Faulted(@, "get_session"),
                                ![t].calls = Append(@, "get_session")]
    /\ users' = IF SelectUser(turn[t].user_id) = 0
                THEN Append(users, UserRow(turn[t].user_id))
                ELSE users
    /\ UNCHANGED <<redis, redis_up, now, conversations, collected_data, nturns>>

(* history = await get_session(user_id); None becomes []; the user message *)
(* is appended.                                                            *)
GetSession(t) ==
    /\ turn[t].pc = "get_session"
    /\ LET loaded == get_session(turn[t].user_id)
           history == IF loaded.is_none THEN <<>> ELSE loaded.v
       IN  turn' = [turn EXCEPT ![t].pc = "get_ai_response",
                                ![t].history = Append(history, Msg("user", turn[t].message)),
                                ![t].load_at = now,
                                ![t].faults = Faulted(@, "get_session"),
                                ![t].calls = Append(@, "get_session")]
    /\ UNCHANGED <<redis, redis_up, now, users, conversations, collected_data, nturns>>

(* a string in place of None, which the empty-string test would also take *)
NoResponseFromAI_NoneOnly(ai_response) == ai_response.is_none

(* not ai_response: None and the empty string *)
NoResponseFromAI(ai_response) == ai_response.is_none \/ ai_response.v = ""

(* the session of a completed conversation deleted before anything is      *)
(* persisted                                                               *)
AfterAIResponse_DeleteFirst(t, ai_response) ==
    IF NoResponseFromAI(ai_response)
    THEN [Return(t, NoneStr, "get_ai_response") EXCEPT
              !.ai_response = ai_response, !.branch = "failed"]
    ELSE LET parsed == JsonLoads(ai_response.v)
         IN  IF parsed.ok
             THEN [turn[t] EXCEPT
                      !.pc = "delete_session", !.ai_response = ai_response,
                      !.branch = "complete", !.final_data = parsed.value,
                      !.final_reply = DEFAULT_REPLY,
                      !.history = Append(@, Msg("assistant", JsonDumps(parsed.value))),
                      !.calls = Append(@, "get_ai_response")]
             ELSE [turn[t] EXCEPT
                      !.pc = "set_session", !.ai_response = ai_response,
                      !.branch = "ongoing",
                      !.history = Append(@, Msg("assistant", ai_response.v)),
                      !.calls = Append(@, "get_ai_response")]

(* an object answered to the first message of a conversation taken as an   *)
(* ordinary reply                                                          *)
AfterAIResponse_FirstTurnOngoing(t, ai_response) ==
    IF NoResponseFromAI(ai_response)
    THEN [Return(t, NoneStr, "get_ai_response") EXCEPT
              !.ai_response = ai_response, !.branch = "failed"]
    ELSE LET parsed == JsonLoads(ai_response.v)
         IN  IF parsed.ok /\ Len(turn[t].history) > 1
             THEN [turn[t] EXCEPT
                      !.pc = "select_user", !.ai_response = ai_response,
                      !.branch = "complete", !.final_data = parsed.value,
                      !.history = Append(@, Msg("assistant", JsonDumps(parsed.value))),
                      !.calls = Append(@, "get_ai_response")]
             ELSE [turn[t] EXCEPT
                      !.pc = "set_session", !.ai_response = ai_response,
                      !.branch = "ongoing",
                      !.history = Append(@, Msg("assistant", ai_response.v)),
                      !.calls = Append(@, "get_ai_response")]

(* What follows the model's answer up to the next await: return None on no *)
(* answer; json.loads; on JSONDecodeError append the raw text; otherwise   *)
(* enter _handle_conversation_completion and append json.dumps(final_data).*)
AfterAIResponse(t, ai_response) ==
    IF NoResponseFromAI(ai_response)
    THEN [Return(t, NoneStr, "get_ai_response") EXCEPT
              !.ai_response = ai_response, !.branch = "failed"]
    ELSE LET parsed == JsonLoads(ai_response.v)
         IN  IF parsed.ok
             THEN [turn[t] EXCEPT
                      !.pc = "select_user", !.ai_response = ai_response,
                      !.branch = "complete", !.final_data = parsed.value,
                      !.history = Append(@, Msg("assistant", JsonDumps(parsed.value))),
                      !.calls = Append(@, "get_ai_response")]
             ELSE [turn[t] EXCEPT
                      !.pc = "set_session", !.ai_response = ai_response,
                      !.branch = "ongoing",
                      !.history = Append(@, Msg("assistant", ai_response.v)),
                      !.calls = Append(@, "get_ai_response")]

(* ai_response = await get_ai_response(system_prompt=SYSTEM_PROMPT,        *)
(* conversation_history=history.copy()), the backend doing one of the      *)
(* given outcomes, and the code up to the next await.                      *)
GetAIResponseIn(t, outcomes) ==
    /\ turn[t].pc = "get_ai_response"
    /\ \E outcome \in outcomes :
          LET built == BuildMessages(SYSTEM_PROMPT, turn[t].history)
          IN  turn' = [turn EXCEPT ![t] =
                         [AfterAIResponse(t, get_ai_response(outcome)) EXCEPT
                             !.backend = outcome,
                             !.sent = built.messages,
                             !.arg_after = built.conversation_history]]
    /\ UNCHANGED <<redis, redis_up, now, users, conversations, collected_data, nturns>>

GetAIResponse(t) == GetAIResponseIn(t, BackendOutcomes)

(* only the last exchange saved *)
SetSession_LastExchange(t) ==
    /\ turn[t].pc = "set_session"
    /\ redis' = set_session(turn[t].user_id,
                            SubSeq(turn[t].history, Len(turn[t].history) - 1,
                                   Len(turn[t].history)))
    /\ turn' = [turn EXCEPT ![t] =
                 [Return(t, turn[t].ai_response, "set_session") EXCEPT
                     !.faults = Faulted(@, "set_session")]]
    /\ UNCHANGED <<redis_up, now, users, conversations, collected_data, nturns>>

(* await set_session(user_id, history); return ai_response *)
SetSession(t) ==
    /\ turn[t].pc = "set_session"
    /\ redis' = set_session(turn[t].user_id, turn[t].history)
    /\ turn' = [turn EXCEPT ![t] =
                 [Return(t, turn[t].ai_response, "set_session") EXCEPT
                     !.faults = Faulted(@, "set_session")]]
    /\ UNCHANGED <<redis_up, now, users, conversations, collected_data, nturns>>

(* Step 1 begins: result = await db.execute(select(User)...).  The         *)
(* statement can fail (ok = FALSE): the error leaves process_message.      *)
ExecuteSelect(t) ==
    /\ turn[t].pc = "select_user"
    /\ \E ok \in BOOLEAN :
          turn' = [turn EXCEPT ![t] =
                     IF ok
                     THEN [turn[t] EXCEPT !.pc = "commit",
                                          !.user = SelectUser(turn[t].user_id),
                                          !.calls = Append(@, "select_user")]
                     ELSE Raise(t, "SQLAlchemyError", "select_user")]
    /\ UNCHANGED <<redis, redis_up, now, users, conversations, collected_data, nturns>>

(* the new User committed on its own before the Conversation *)
Commit_UserFirst(t) ==
    /\ turn[t].pc = "commit"
    /\ \E ok \in BOOLEAN :
          LET new_user == turn[t].user = 0
              user == IF new_user THEN UserRow(turn[t].user_id).user_id ELSE turn[t].user
              conversation == ConversationRow(user, "completed", turn[t].history)
          IN  IF new_user /\ UniqueViolation(turn[t].user_id)
              THEN /\ turn' = [turn EXCEPT ![t] = Raise(t, "IntegrityError", "commit")]
                   /\ UNCHANGED <<users, conversations>>
              ELSE /\ users' = IF new_user
                               THEN Append(users, UserRow(turn[t].user_id))
                               ELSE users
                   /\ IF ok
                      THEN /\ conversations' = Append(conversations, conversation)
                           /\ turn' = [turn EXCEPT ![t].pc = "collect",
                                                   ![t].user = user,
                                                   ![t].conversation =
                                                       conversation.conversation_id,
                                                   ![t].calls = Append(@, "commit")]
                      ELSE /\ turn' = [turn EXCEPT ![t] =
                                         Raise(t, "SQLAlchemyError", "commit")]
                           /\ UNCHANGED conversations
    /\ UNCHANGED <<redis, redis_up, now, collected_data, nturns>>

(* the CollectedData row written by the same commit as User and            *)
(* Conversation                                                            *)
Commit_SingleTransaction(t) ==
    /\ turn[t].pc = "commit"
    /\ \E ok \in BOOLEAN :
          LET new_user == turn[t].user = 0
              user == IF new_user THEN UserRow(turn[t].user_id).user_id ELSE turn[t].user
              conversation == ConversationRow(user, "completed", turn[t].history)
              data_to_save == DictGet(turn[t].final_data, "data", JObj(<<>>))
          IN  IF ok /\ ~(new_user /\ UniqueViolation(turn[t].user_id))
              THEN /\ users' = IF new_user
                               THEN Append(users, UserRow(turn[t].user_id))
                               ELSE users
                   /\ conversations' = Append(conversations, conversation)
                   /\ collected_data' =
                        IF Truthy(data_to_save)
                        THEN Append(collected_data,
                                    CollectedDataRow(user, conversation.conversation_id,
                                                     data_to_save))
                        ELSE collected_data
                   /\ turn' = [turn EXCEPT ![t].pc = "collect",
                                           ![t].user = user,
                                           ![t].conversation = conversation.conversation_id,
                                           ![t].calls = Append(@, "commit")]
              ELSE /\ turn' = [turn EXCEPT ![t] =
                                 Raise(t, IF ok THEN "IntegrityError" ELSE "SQLAlchemyError",
                                       "commit")]
                   /\ UNCHANGED <<users, conversations, collected_data>>
    /\ UNCHANGED <<redis, redis_up, now, nturns>>

(* db.add(user) when none was found; db.add(conversation); await           *)
(* db.commit(): both rows are written by the one commit, or neither is.    *)
(* The commit fails when the database fails (ok = FALSE) or when the new   *)
(* user breaks the unique constraint of whatsapp_id.                       *)
Commit(t) ==
    /\ turn[t].pc = "commit"
    /\ \E ok \in BOOLEAN :
          LET new_user == turn[t].user = 0
              user == IF new_user THEN UserRow(turn[t].user_id).user_id ELSE turn[t].user
              conversation == ConversationRow(user, "completed", turn[t].history)
          IN  IF ok /\ ~(new_user /\ UniqueViolation(turn[t].user_id))
              THEN /\ users' = IF new_user
                               THEN Append(users, UserRow(turn[t].user_id))
                               ELSE users
                   /\ conversations' = Append(conversations, conversation)
                   /\ turn' = [turn EXCEPT ![t].pc = "collect",
                                           ![t].user = user,
                                           ![t].conversation = conversation.conversation_id,
                                           ![t].calls = Append(@, "commit")]
              ELSE /\ turn' = [turn EXCEPT ![t] =
                                 Raise(t, IF ok THEN "IntegrityError" ELSE "SQLAlchemyError",
                                       "commit")]
                   /\ UNCHANGED <<users, conversations>>
    /\ UNCHANGED <<redis, redis_up, now, collected_data, nturns>>

(* no default put in place of a missing or blank reply field *)
ReplyMessage_EmptyDefault(final_data) ==
    LET reply_message == DictGet(final_data, "reply", JNull)
    IN  IF ~IsStr(reply_message) \/ StripIsEmpty(reply_message.lit)
        THEN ""
        ELSE reply_message.lit

(* the reply field returned whenever it is a str, blank or not *)
ReplyMessage_NoStrip(final_data) ==
    LET reply_message == DictGet(final_data, "reply", JNull)
    IN  IF ~IsStr(reply_message) THEN DEFAULT_REPLY ELSE reply_message.lit

(* reply_message: the reply field when it is a non-blank str *)
ReplyMessage(final_data) ==
    LET reply_message == DictGet(final_data, "reply", JNull)
    IN  IF ~IsStr(reply_message) \/ StripIsEmpty(reply_message.lit)
        THEN DEFAULT_REPLY
        ELSE reply_message.lit

(* Step 2: data_to_save = final_data.get("data", {}); when it is truthy,   *)
(* await create_collected_data(...), which commits on its own; then the    *)
(* reply is computed.  final_data.get raises AttributeError when           *)
(* final_data is not a dict.                                               *)
CollectData(t) ==
    /\ turn[t].pc = "collect"
    /\ LET final_data == turn[t].final_data
           data_to_save == DictGet(final_data, "data", JObj(<<>>))
       IN  IF ~IsDict(final_data)
           THEN /\ turn' = [turn EXCEPT ![t] = Raise(t, "AttributeError", "final_data.get")]
                /\ UNCHANGED collected_data
           ELSE IF Truthy(data_to_save)
           THEN \E ok \in BOOLEAN :
                  IF ok
                  THEN /\ collected_data' =
                            Append(collected_data,
                                   CollectedDataRow(turn[t].user, turn[t].conversation,
                                                    data_to_save))
                       /\ turn' = [turn EXCEPT ![t].pc = "delete_session",
                                               ![t].final_reply = ReplyMessage(final_data),
                                               ![t].calls = Append(@, "create_collected_data")]
                  ELSE /\ turn' = [turn EXCEPT ![t] =
                                     Raise(t, "SQLAlchemyError", "create_collected_data")]
                       /\ UNCHANGED collected_data
           ELSE /\ turn' = [turn EXCEPT ![t].pc = "delete_session",
                                        ![t].final_reply = ReplyMessage(final_data)]
                /\ UNCHANGED collected_data
    /\ UNCHANGED <<redis, redis_up, now, users, conversations, nturns>>

(* the reply returned with the session of the finished conversation kept *)
DeleteSession_Kept(t) ==
    /\ turn[t].pc = "delete_session"
    /\ turn' = [turn EXCEPT ![t] =
                 [Return(t, Some(turn[t].final_reply), "delete_session") EXCEPT
                     !.faults = Faulted(@, "delete_session")]]
    /\ UNCHANGED <<redis, redis_up, now, users, conversations, collected_data, nturns>>

(* await delete_session(user_id); return final_reply *)
DeleteSession(t) ==
    /\ turn[t].pc = "delete_session"
    /\ redis' = delete_session(turn[t].user_id)
    /\ turn' = [turn EXCEPT ![t] =
                 [Return(t, Some(turn[t].final_reply), "delete_session") EXCEPT
                     !.faults = Faulted(@, "delete_session")]]
    /\ UNCHANGED <<redis_up, now, users, conversations, collected_data, nturns>>

(* Redis becomes unreachable: from now on every command raises a          *)
(* RedisError (ConnectionError, TimeoutError), which SessionManager logs.  *)
RedisDown ==
    /\ redis_up
    /\ redis_up' = FALSE
    /\ UNCHANGED <<redis, now, users, conversations, collected_data, turn, nturns>>

(* Redis is reachable again, holding what it held. *)
RedisUp ==
    /\ ~redis_up
    /\ redis_up' = TRUE
    /\ UNCHANGED <<redis, now, users, conversations, collected_data, turn, nturns>>

(* Time passes. *)
Tick ==
    /\ now < MaxTicks * TickStep
    /\ now' = now + TickStep
    /\ UNCHANGED <<redis, redis_up, users, conversations, collected_data, turn, nturns>>

----------------------------------------------------------------------------
Init ==
    /\ redis = [k \in Keys |-> NoEntry]
    /\ redis_up = TRUE
    /\ now = 0
    /\ users = <<>>
    /\ conversations = <<>>
    /\ collected_data = <<>>
    /\ turn = [t \in Slots |-> IdleTurn]
    /\ nturns = 0

Step(t) ==
    \/ GetSession(t)
    \/ GetAIResponse(t)
    \/ SetSession(t)
    \/ ExecuteSelect(t)
    \/ Commit(t)
    \/ CollectData(t)
    \/ DeleteSession(t)

(* Webhook calls handled one at a time, Redis healthy. *)
Next ==
    \/ \E t \in Slots, u \in UserIds : ReceiveSerial(t, u)
    \/ \E t \in Slots : Redeliver(t)
    \/ \E t \in Slots : Step(t)
    \/ Tick

Spec == Init /\ [][Next]_vars

(* Calls handled one at a time within one expiry period, with Redis going  *)
(* down and coming back at any moment.                                     *)
NextFaulty ==
    \/ \E t \in Slots, u \in UserIds : ReceiveSerial(t, u)
    \/ \E t \in Slots : Step(t)
    \/ RedisDown
    \/ RedisUp

SpecFaulty == Init /\ [][NextFaulty]_vars

(* Webhook events arriving while other calls are in flight: the calls      *)
(* interleave at their awaits.  One expiry period, Redis healthy, and the  *)
(* model failing, answering a plain text or answering a completion object  *)
(* with data.                                                              *)
ConcurrentOutcomes == {RaisedAPIError, Choice(Some(T_PLAIN)), Choice(Some(T_DONE_DATA))}

StepConcurrent(t) ==
    \/ GetSession(t)
    \/ GetAIResponseIn(t, ConcurrentOutcomes)
    \/ SetSession(t)
    \/ ExecuteSelect(t)
    \/ Commit(t)
    \/ CollectData(t)
    \/ DeleteSession(t)

NextConcurrent ==
    \/ \E t \in Slots, u \in UserIds : Receive(t, u)
    \/ \E t \in Slots : StepConcurrent(t)

SpecConcurrent == Init /\ [][NextConcurrent]_vars

(* Calls handled one at a time within one expiry period, the backend doing *)
(* any of its outcomes and the model answering any of the texts.           *)
StepClient(t) ==
    \/ GetSession(t)
    \/ GetAIResponseIn(t, AllBackendOutcomes)
    \/ SetSession(t)
    \/ ExecuteSelect(t)
    \/ Commit(t)
    \/ CollectData(t)
    \/ DeleteSession(t)

NextClient ==
    \/ \E t \in Slots, u \in UserIds : ReceiveRecorded(MaxTurns, t, u)
    \/ \E t \in Slots : StepClient(t)

SpecClient == Init /\ [][NextClient]_vars

(* The same calls under the event loop's scheduling: a coroutine that can  *)
(* take its next step (its awaited adapter call returns or raises) is not  *)
(* left waiting for ever.                                                  *)
SpecLive == SpecConcurrent /\ \A t \in Slots : WF_vars(StepConcurrent(t))

(* A dialogue: up to MaxDialogue calls handled one at a time within one    *)
(* expiry period, Redis healthy, the model failing, answering a plain text *)
(* or answering a completion object with data.                             *)
NextDialogue ==
    \/ \E t \in Slots, u \in UserIds : ReceiveRecorded(MaxDialogue, t, u)
    \/ \E t \in Slots : StepConcurrent(t)

SpecDialogue == Init /\ [][NextDialogue]_vars

(* Requests of any origin, handled one at a time within one expiry period: *)
(* without a signature header, with an empty one, with the signature of    *)
(* the request, with one computed under another token, with the signature  *)
(* of another body; with or without the fields of the form.                *)
OfferedSignatures(u, body) ==
    {NoneStr, Some(""), Some(Sign(TWILIO_AUTH_TOKEN, u, body)),
     Some(Sign("guessed-token", u, body)), Some(Sign(TWILIO_AUTH_TOKEN, u, "Send money"))}

NextGate ==
    \/ \E t \in Slots, u \in UserIds, well_formed \in BOOLEAN :
          \E signature \in OfferedSignatures(u, Body(nturns + 1)) :
              /\ \A s \in Slots : Free(s)
              /\ Deliver(t, u, signature, well_formed)
    \/ \E t \in Slots : Step(t)

SpecGate == Init /\ [][NextGate]_vars

----------------------------------------------------------------------------
(* Vocabulary of the properties.                                           *)

Done(t) == turn[t].pc = "done"

Key(t) == get_session_key(turn[t].user_id)

(* The stored text of the user's session when the call loaded it: empty    *)
(* when there was no entry or the entry had expired.                       *)
PriorStored(t) ==
    LET e == turn[t].pre.redis[Key(t)]
    IN  IF e.present /\ turn[t].load_at < e.expire_at THEN e.value ELSE <<>>

(* The model answered with a non-empty text. *)
Answered(t) == ~turn[t].ai_response.is_none /\ turn[t].ai_response.v # ""

Parsed(t) == JsonLoads(turn[t].ai_response.v)

DbErrors == {"SQLAlchemyError", "IntegrityError"}

(* A persistence step of the call raised. *)
PersistenceRaised(t) == turn[t].exc \in DbErrors

DbUnchanged(t) ==
    /\ users = turn[t].pre.users
    /\ conversations = turn[t].pre.conversations
    /\ collected_data = turn[t].pre.collected_data

(* The call added exactly one Conversation: completed, owned by the User   *)
(* of the caller's identity, holding the loaded history, the user message  *)
(* and the given last assistant content.                                   *)
OneCompletedConversation(t, last) ==
    /\ Len(conversations) = Len(turn[t].pre.conversations) + 1
    /\ SubSeq(conversations, 1, Len(turn[t].pre.conversations)) = turn[t].pre.conversations
    /\ LET c == conversations[Len(conversations)]
           H == PriorStored(t)
       IN  /\ c.status = "completed"
           /\ \E i \in 1..Len(users) :
                 /\ users[i].whatsapp_id = turn[t].user_id
                 /\ users[i].user_id = c.user_id
           /\ Len(c.conversation_history) = Len(H) + 2
           /\ \A i \in 1..Len(H) :
                 c.conversation_history[i] = Msg(H[i][1], H[i][2])
           /\ c.conversation_history[Len(H) + 1] = Msg("user", turn[t].message)
           /\ c.conversation_history[Len(H) + 2] = Msg("assistant", last)

----------------------------------------------------------------------------
(* C1  Ongoing turn.  When the model answers a non-empty text that is not  *)
(* JSON, the call returns that text, and the user's session entry holds    *)
(* the loaded history followed by the user message and the assistant text, *)
(* expiring SessionTTL seconds after the write.                            *)
C1_OngoingTurn ==
    \A t \in Slots :
        (Done(t) /\ Answered(t) /\ ~Parsed(t).ok) =>
            /\ turn[t].outcome = "returned"
            /\ turn[t].result = Some(turn[t].ai_response.v)
            /\ redis[Key(t)] =
                 [present |-> TRUE,
                  value |-> PriorStored(t)
                            \o <<<<"user", turn[t].message>>,
                                 <<"assistant", turn[t].ai_response.v>>>>,
                  expire_at |-> turn[t].ended_at + SessionTTL]

(* an Ongoing turn of a user who had a live session *)
C1_Witness ==
    \E t \in Slots :
        /\ Done(t) /\ turn[t].ai_response = Some(T_PLAIN)
        /\ Len(PriorStored(t)) = 2
        /\ Len(redis[Key(t)].value) = 4

(* C2  Model failure.  When the completion client returns no answer the    *)
(* call returns None, the session store and the durable tables are what    *)
(* they were when the call began, and the call made no session write.      *)
C2_ModelFailure ==
    \A t \in Slots :
        (Done(t) /\ ~Answered(t)) =>
            /\ turn[t].outcome = "returned"
            /\ turn[t].result = NoneStr
            /\ redis = turn[t].pre.redis
            /\ DbUnchanged(t)
            /\ turn[t].calls = <<"get_session", "get_ai_response">>

(* a failed model call, with and without content, of a user with a session *)
C2_Witness ==
    \E t \in Slots :
        /\ Done(t) /\ turn[t].ai_response = Some("")
        /\ turn[t].pre.redis[Key(t)].present
        /\ turn[t].result = NoneStr

(* C3  Complete turn.  When the model answers a completion object with a   *)
(* non-blank reply and a non-empty data mapping D, and no persistence step *)
(* fails, the call returns the reply field; a User of the identity exists; *)
(* one Conversation was added, completed, owned by that User, holding the  *)
(* loaded history, the user message and the serialized object; and one     *)
(* CollectedData was added, owned by that Conversation, with data D.       *)
IsCompletionObject(v) ==
    /\ IsDict(v)
    /\ HasKey(v, "reply") /\ IsStr(DictGet(v, "reply", JNull))
    /\ HasKey(v, "data") /\ IsDict(DictGet(v, "data", JNull))

C4_CompletionClearsSession ==
    \A t \in Slots :
        (Done(t) /\ turn[t].branch = "complete" /\ turn[t].outcome = "returned") =>
            /\ ~redis[Key(t)].present
            /\ RedisGet(Key(t)).is_none

(* a returned Complete turn of a user whose session was live when loaded   *)
C4_Witness ==
    \E t \in Slots :
        /\ Done(t) /\ turn[t].branch = "complete" /\ turn[t].outcome = "returned"
        /\ Len(PriorStored(t)) > 0
        /\ Len(conversations) > Len(turn[t].pre.conversations)

(* C5  No durable write on ongoing turns.  A call that did not take the    *)
(* Complete branch leaves users, conversations and collected_data as it    *)
(* found them, at every point of the call; so a User row is only ever      *)
(* added by a call on the Complete branch.                                 *)
C5_NoDurableWriteWhenOngoing ==
    \A t \in Slots :
        (turn[t].pc # "idle" /\ turn[t].branch # "complete") => DbUnchanged(t)

(* an Ongoing turn has ended for an identity that has no User row, while   *)
(* another identity has one                                                *)
C5_Witness ==
    \E t \in Slots :
        /\ Done(t) /\ turn[t].branch = "ongoing"
        /\ Len(users) = 1
        /\ users[1].whatsapp_id # turn[t].user_id

(* C6  Persistence failure preserves the session.  When a persistence step *)
(* of the call raises, the error leaves process_message, delete_session is *)
(* not called and the session store is what it was when the call began.    *)
C6_PersistenceFailureKeepsSession ==
    \A t \in Slots :
        PersistenceRaised(t) =>
            /\ Done(t) /\ turn[t].outcome = "raised"
            /\ \A i \in 1..Len(turn[t].calls) : turn[t].calls[i] # "delete_session"
            /\ redis = turn[t].pre.redis

(* create_collected_data raised after the Conversation was committed, for  *)
(* a user with a session                                                   *)
C6_Witness ==
    \E t \in Slots :
        /\ PersistenceRaised(t)
        /\ turn[t].calls[Len(turn[t].calls)] = "create_collected_data"
        /\ Len(conversations) > Len(turn[t].pre.conversations)
        /\ redis[Key(t)].present

(* C7  Fallback on every unrecoverable failure.  Whatever fails in the     *)
(* call, a None result or an exception out of process_message, the webhook *)
(* answers 200 with the fixed fallback reply.                              *)
C7_FallbackOnEveryFailure ==
    \A t \in Slots :
        (Done(t) /\ (turn[t].outcome = "raised" \/ turn[t].result.is_none)) =>
            turn[t].response = [status |-> 200, message |-> FALLBACK_REPLY]

(* C8  Classification by wire shape.  The Complete branch is taken only    *)
(* for a JSON object with a string reply field and an object data field;   *)
(* every other non-empty text ends as an Ongoing turn: the raw text is     *)
(* returned and stored as the assistant message, and no durable row is     *)
(* written.                                                                *)
C8_ClassificationByWireShape ==
    \A t \in Slots :
        LET complete == Parsed(t).ok /\ IsCompletionObject(Parsed(t).value)
        IN  /\ (Answered(t) /\ turn[t].branch = "complete") => complete
            /\ (Done(t) /\ Answered(t) /\ ~complete) =>
                  /\ turn[t].branch = "ongoing"
                  /\ turn[t].result = turn[t].ai_response
                  /\ redis[Key(t)].present
                  /\ redis[Key(t)].value[Len(redis[Key(t)].value)] =
                        <<"assistant", turn[t].ai_response.v>>
                  /\ DbUnchanged(t)

(* C9  Classification never raises.  With no persistence step failing,     *)
(* every non-empty model text makes the call return a text, and a text     *)
(* that is not a completion object writes no durable row.                  *)
C9_ClassificationNeverRaises ==
    \A t \in Slots :
        (Done(t) /\ Answered(t) /\ ~PersistenceRaised(t)) =>
            /\ turn[t].outcome = "returned"
            /\ ~turn[t].result.is_none
            /\ ~(Parsed(t).ok /\ IsCompletionObject(Parsed(t).value)) => DbUnchanged(t)

(* C10  Completion with no data.  When the model answers a JSON object     *)
(* whose data field is absent or an empty mapping, and no persistence step *)
(* fails, the call returns on the Complete branch: one completed           *)
(* Conversation was added, no CollectedData was added, and the session     *)
(* entry was deleted.                                                      *)
DataAbsentOrEmpty(v) ==
    \/ ~HasKey(v, "data")
    \/ /\ DictGet(v, "data", JNull).kind \in {"object", "array"}
       /\ DictGet(v, "data", JNull).members = <<>>

C10_CompletionWithNoData ==
    \A t \in Slots :
        LET v == Parsed(t).value
        IN  (/\ Done(t) /\ Answered(t) /\ Parsed(t).ok /\ IsDict(v)
             /\ DataAbsentOrEmpty(v) /\ ~PersistenceRaised(t)) =>
                /\ turn[t].outcome = "returned"
                /\ turn[t].branch = "complete"
                /\ OneCompletedConversation(t, JsonDumps(v))
                /\ collected_data = turn[t].pre.collected_data
                /\ turn[t].calls[Len(turn[t].calls)] = "delete_session"
                /\ ~redis[Key(t)].present

(* Scenario D for a user with a live session, and the same with the data   *)
(* field absent                                                            *)
C10_Witness ==
    \E t \in Slots :
        /\ Done(t) /\ turn[t].ai_response \in {Some(T_DONE_EMPTY), Some(T_DONE_NODATA)}
        /\ turn[t].result \in {Some("Done"), Some("Bye")}
        /\ Len(PriorStored(t)) = 2
        /\ Len(conversations) = 1 /\ conversations[1].status = "completed"
        /\ collected_data = <<>>

----------------------------------------------------------------------------
(* C11  Reply fallback.  A call on the Complete branch whose final_data is *)
(* a JSON object, with no persistence step failing, returns the reply      *)
(* field when that is a non-blank string and the fixed thank-you text when *)
(* the field is missing, empty, white space only or not a string; in every *)
(* one of these cases the call returns, has added its completed            *)
(* Conversation and has deleted the session entry.                         *)
NonBlankStr(v) == IsStr(v) /\ ~StripIsEmpty(v.lit)

C11_ReplyFallback ==
    \A t \in Slots :
        LET v == Parsed(t).value
            reply == DictGet(v, "reply", JNull)
        IN  (/\ Done(t) /\ Answered(t) /\ Parsed(t).ok /\ IsDict(v)
             /\ ~PersistenceRaised(t)) =>
                /\ turn[t].outcome = "returned"
                /\ turn[t].result =
                     Some(IF NonBlankStr(reply) THEN reply.lit ELSE DEFAULT_REPLY)
                /\ OneCompletedConversation(t, JsonDumps(v))
                /\ turn[t].calls[Len(turn[t].calls)] = "delete_session"
                /\ ~redis[Key(t)].present

(* a completion whose reply is white space only, with data to save: the    *)
(* thank-you text is returned and both rows are written                    *)
C11_Witness ==
    \E t \in Slots :
        /\ Done(t) /\ turn[t].ai_response = Some(T_BLANK_REPLY)
        /\ turn[t].result = Some(DEFAULT_REPLY)
        /\ Len(conversations) = Len(turn[t].pre.conversations) + 1
        /\ Len(collected_data) = Len(turn[t].pre.collected_data) + 1
        /\ ~redis[Key(t)].present

----------------------------------------------------------------------------
(* C12  Exactly-once persistence per completion.  No inbound event is the  *)
(* completing message of two Conversations of one User, however often the  *)
(* event was delivered; a call that returns on the Complete branch has     *)
(* added exactly one Conversation; and no Conversation has two             *)
(* CollectedData rows.                                                     *)
CompletingMessage(c) == c.conversation_history[Len(c.conversation_history) - 1].content

C12_ExactlyOncePersistence ==
    /\ \A i, j \in 1..Len(conversations) :
          (i < j /\ conversations[i].user_id = conversations[j].user_id) =>
              CompletingMessage(conversations[i]) # CompletingMessage(conversations[j])
    /\ \A t \in Slots :
          (Done(t) /\ turn[t].branch = "complete" /\ turn[t].outcome = "returned") =>
              Len(conversations) = Len(turn[t].pre.conversations) + 1
    /\ \A i, j \in 1..Len(collected_data) :
          i < j => collected_data[i].conversation_id # collected_data[j].conversation_id

(* C13  Retry after persistence failure recovers the data.  When the event *)
(* of a call whose persistence raised is delivered again, the model        *)
(* answers a completion object and the database does not fail, the call    *)
(* returns, has added one completed Conversation and, for a non-empty data *)
(* field, one CollectedData row owned by it, and has deleted the session   *)
(* entry.                                                                  *)
PersistenceFault(t) == turn[t].exc = "SQLAlchemyError"

C13_RetryRecoversData ==
    \A t \in Slots :
        LET v == Parsed(t).value
            D == DictGet(v, "data", JObj(<<>>))
        IN  (/\ Done(t) /\ turn[t].retry_of \in DbErrors
             /\ Answered(t) /\ Parsed(t).ok /\ IsDict(v)
             /\ ~PersistenceFault(t)) =>
                /\ turn[t].outcome = "returned"
                /\ OneCompletedConversation(t, JsonDumps(v))
                /\ Truthy(D) =>
                     collected_data =
                       Append(turn[t].pre.collected_data,
                              [data_id |-> Len(collected_data),
                               conversation_id |-> conversations[Len(conversations)].conversation_id,
                               user_id |-> conversations[Len(conversations)].user_id,
                               data |-> D])
                /\ turn[t].calls[Len(turn[t].calls)] = "delete_session"
                /\ ~redis[Key(t)].present

(* the earlier delivery committed its Conversation and failed in           *)
(* create_collected_data; the second delivery gets the same object and     *)
(* writes the data                                                         *)
C13_Witness ==
    \E t \in Slots :
        /\ Done(t) /\ turn[t].retry_of = "SQLAlchemyError"
        /\ turn[t].ai_response = Some(T_DONE_DATA)
        /\ Len(turn[t].pre.conversations) = 1
        /\ turn[t].pre.conversations[1].conversation_history[2].content =
             JsonDumps(Parsed(t).value)
        /\ turn[t].pre.collected_data = <<>>
        /\ Len(collected_data) = 1
        /\ collected_data[1].data = JObj(<<Member("full_name", JStr("John"))>>)
        /\ turn[t].outcome = "returned"

----------------------------------------------------------------------------
(* C14  Creation order and ownership.  Every Conversation is owned by a    *)
(* User of the table, every CollectedData by a Conversation of the table   *)
(* and by that Conversation's User; and in a call, the commit of the       *)
(* Conversation follows the User lookup, the committed Conversation is     *)
(* owned by the User of the caller's identity, and create_collected_data   *)
(* is called only after that commit.                                       *)
Position(calls, name) ==
    IF \E i \in 1..Len(calls) : calls[i] = name
    THEN CHOOSE i \in 1..Len(calls) : calls[i] = name
    ELSE 0

Committed(t) ==
    \E i \in 1..Len(turn[t].calls) :
        /\ turn[t].calls[i] = "commit"
        /\ ~(i = Len(turn[t].calls) /\ turn[t].outcome = "raised")

C14_CreationOrderAndOwnership ==
    /\ \A i \in 1..Len(conversations) :
          \E k \in 1..Len(users) : users[k].user_id = conversations[i].user_id
    /\ \A i \in 1..Len(collected_data) :
          \E k \in 1..Len(conversations) :
              /\ conversations[k].conversation_id = collected_data[i].conversation_id
              /\ conversations[k].user_id = collected_data[i].user_id
    /\ \A t \in Slots :
          LET calls == turn[t].calls
          IN  /\ Position(calls, "commit") > 0 =>
                    /\ Position(calls, "select_user") > 0
                    /\ Position(calls, "select_user") < Position(calls, "commit")
              /\ Committed(t) =>
                    /\ \E k \in 1..Len(users) :
                          /\ users[k].user_id = turn[t].user
                          /\ users[k].whatsapp_id = turn[t].user_id
                    /\ \E k \in 1..Len(conversations) :
                          /\ conversations[k].conversation_id = turn[t].conversation
                          /\ conversations[k].user_id = turn[t].user
              /\ Position(calls, "create_collected_data") > 0 =>
                    /\ Committed(t)
                    /\ Position(calls, "commit") < Position(calls, "create_collected_data")

(* the second completion of one identity: its CollectedData belongs to     *)
(* Conversation 2 and User 1                                               *)
C14_Witness ==
    /\ Len(users) = 1 /\ Len(conversations) = 2 /\ Len(collected_data) = 1
    /\ collected_data[1].conversation_id = 2
    /\ collected_data[1].user_id = 1
    /\ \E t \in Slots :
          turn[t].calls = <<"get_session", "get_ai_response", "select_user",
                            "commit", "create_collected_data">>

(* C15  Get-or-create User.  With calls handled one at a time no two User  *)
(* rows have the same whatsapp_id and no commit breaks the unique          *)
(* constraint; a call that returns on the Complete branch leaves one User  *)
(* of the caller's identity, who owns the Conversation added; and when     *)
(* that User existed before the call, the users table is unchanged.        *)
HasUser(table, whatsapp_id) ==
    \E k \in 1..Len(table) : table[k].whatsapp_id = whatsapp_id

C15_GetOrCreateUser ==
    /\ \A i, j \in 1..Len(users) :
          i < j => users[i].whatsapp_id # users[j].whatsapp_id
    /\ \A t \in Slots :
          /\ turn[t].exc # "IntegrityError"
          /\ (Done(t) /\ turn[t].branch = "complete" /\ turn[t].outcome = "returned") =>
                /\ Len(conversations) = Len(turn[t].pre.conversations) + 1
                /\ \E k \in 1..Len(users) :
                      /\ users[k].whatsapp_id = turn[t].user_id
                      /\ users[k].user_id = conversations[Len(conversations)].user_id
                /\ HasUser(turn[t].pre.users, turn[t].user_id) => users = turn[t].pre.users
                /\ ~HasUser(turn[t].pre.users, turn[t].user_id) =>
                      Len(users) = Len(turn[t].pre.users) + 1

(* an identity completes for the second time: its User is reused and owns  *)
(* both Conversations                                                      *)
C15_Witness ==
    \E t \in Slots :
        /\ Done(t) /\ turn[t].branch = "complete" /\ turn[t].outcome = "returned"
        /\ HasUser(turn[t].pre.users, turn[t].user_id)
        /\ users = turn[t].pre.users
        /\ Len(conversations) = 2
        /\ conversations[1].user_id = conversations[2].user_id

(* C16  Only completed conversations are durable.  Every row of the        *)
(* conversations table has status completed, also a row left by a call     *)
(* that failed after its commit.                                           *)
C16_OnlyCompletedConversations ==
    \A i \in 1..Len(conversations) : conversations[i].status = "completed"

(* a Conversation committed by a call that then raised *)
C16_Witness ==
    \E t \in Slots :
        /\ Done(t) /\ turn[t].outcome = "raised"
        /\ Len(conversations) = Len(turn[t].pre.conversations) + 1
        /\ conversations[Len(conversations)].status = "completed"

----------------------------------------------------------------------------
(* C17  Session round-trip.  After a call has ended with set_session(U, H) *)
(* and until another call begins, get_session(U) is H while the entry has  *)
(* not expired and None from its expiry on; and get_session of an identity *)
(* whose key has no entry is None.                                         *)
LastCall(t) == turn[t].calls[Len(turn[t].calls)]

C17_SessionRoundTrip ==
    /\ \A t \in Slots :
          (Done(t) /\ LastCall(t) = "set_session") =>
              get_session(turn[t].user_id) =
                  IF now < turn[t].ended_at + SessionTTL
                  THEN Some(turn[t].history)
                  ELSE None
    /\ \A u \in UserIds :
          ~redis[get_session_key(u)].present => get_session(u) = None

(* a history of four messages read back half an hour after it was saved,   *)
(* while the other identity has no entry                                   *)
C17_Witness ==
    \E t \in Slots :
        /\ Done(t) /\ LastCall(t) = "set_session"
        /\ Len(turn[t].history) = 4
        /\ now = turn[t].ended_at + TickStep
        /\ get_session(turn[t].user_id) = Some(turn[t].history)
        /\ \E u \in UserIds : get_session(u) = None

(* C18  Idempotent delete.  delete_session(U) for an identity whose key    *)
(* holds no live entry leaves every live entry as it is; a call that ended *)
(* with delete_session(U) has returned, U's key is absent and every other  *)
(* key is what it was, and delete_session(U) applied again gives the very  *)
(* same key space.                                                         *)
Live(store, key) ==
    IF store[key].present /\ now < store[key].expire_at
    THEN Some(store[key])
    ELSE None

C18_IdempotentDelete ==
    /\ \A u \in UserIds :
          RedisGet(get_session_key(u)).is_none =>
              \A k \in Keys : Live(delete_session(u), k) = Live(redis, k)
    /\ \A t \in Slots :
          (Done(t) /\ LastCall(t) = "delete_session") =>
              /\ turn[t].outcome = "returned"
              /\ ~redis[Key(t)].present
              /\ \A k \in Keys \ {Key(t)} : redis[k] = turn[t].pre.redis[k]
              /\ delete_session(turn[t].user_id) = redis

(* a call has deleted the key of an identity that had no entry, while the  *)
(* other identity's session is live                                        *)
C18_Witness ==
    \E t \in Slots :
        /\ Done(t) /\ LastCall(t) = "delete_session"
        /\ ~turn[t].pre.redis[Key(t)].present
        /\ \E k \in Keys \ {Key(t)} : ~RedisGet(k).is_none

----------------------------------------------------------------------------
(* C19  Fail-open session load.  When Redis raised in the get_session of a *)
(* call, the call goes on with a history that holds the new user message   *)
(* alone: that is what the model is called with, and the model's answer is *)
(* the only message added after it.  The call raises only where a call     *)
(* without the fault can raise, in a persistence step or in the read of    *)
(* final_data; a text that is not JSON is returned as on any Ongoing turn. *)
LoadFaulted(t) == "get_session" \in turn[t].faults

C19_FailOpenSessionLoad ==
    \A t \in Slots :
        LoadFaulted(t) =>
            /\ turn[t].pc # "get_session"
            /\ turn[t].history[1] = Msg("user", turn[t].message)
            /\ Len(turn[t].history) =
                 IF turn[t].pc = "get_ai_response" \/ turn[t].branch = "failed"
                 THEN 1 ELSE 2
            /\ turn[t].outcome = "raised" =>
                 LastCall(t) \in {"select_user", "commit", "create_collected_data",
                                  "final_data.get"}
            /\ (Done(t) /\ Answered(t) /\ ~Parsed(t).ok) =>
                  /\ turn[t].outcome = "returned"
                  /\ turn[t].result = turn[t].ai_response
                  /\ "set_session" \notin turn[t].faults =>
                        redis[Key(t)].value =
                            <<<<"user", turn[t].message>>,
                              <<"assistant", turn[t].ai_response.v>>>>

(* the user had a live session of two messages; the load met a RedisError  *)
(* and the turn ended as the first turn of a new conversation              *)
C19_Witness ==
    \E t \in Slots :
        /\ Done(t) /\ LoadFaulted(t)
        /\ Len(PriorStored(t)) = 2
        /\ turn[t].outcome = "returned"
        /\ turn[t].result = Some(T_PLAIN)
        /\ Len(redis[Key(t)].value) = 2
        /\ redis[Key(t)].value[1] = <<"user", turn[t].message>>

(* C20  Best-effort session writes.  A call whose set_session met a        *)
(* RedisError has returned the model's text; a call whose delete_session   *)
(* met one has returned the reply, and the Conversation it committed, and  *)
(* the CollectedData for a non-empty data field, are in the tables.        *)
C20_BestEffortSessionWrites ==
    \A t \in Slots :
        /\ "set_session" \in turn[t].faults =>
              /\ Done(t) /\ turn[t].outcome = "returned"
              /\ turn[t].branch = "ongoing"
              /\ turn[t].result = turn[t].ai_response
              /\ turn[t].response = [status |-> 200, message |-> turn[t].ai_response.v]
        /\ "delete_session" \in turn[t].faults =>
              LET v == turn[t].final_data
                  D == DictGet(v, "data", JObj(<<>>))
                  c == conversations[Len(conversations)]
              IN  /\ Done(t) /\ turn[t].outcome = "returned"
                  /\ turn[t].branch = "complete"
                  /\ turn[t].result = Some(ReplyMessage(v))
                  /\ turn[t].response = [status |-> 200, message |-> ReplyMessage(v)]
                  /\ Len(conversations) = Len(turn[t].pre.conversations) + 1
                  /\ c.status = "completed"
                  /\ c.conversation_history = turn[t].history
                  /\ Truthy(D) =>
                        /\ Len(collected_data) = Len(turn[t].pre.collected_data) + 1
                        /\ collected_data[Len(collected_data)].data = D
                        /\ collected_data[Len(collected_data)].conversation_id =
                              c.conversation_id

(* the delete of a live session met a RedisError: the reply was returned,  *)
(* both rows are in the tables and the session entry is still there        *)
C20_Witness ==
    \E t \in Slots :
        /\ Done(t) /\ "delete_session" \in turn[t].faults
        /\ turn[t].result = Some("Thanks John!")
        /\ Len(conversations) = 1 /\ Len(collected_data) = 1
        /\ Len(conversations[1].conversation_history) = 4
        /\ redis[Key(t)].present

----------------------------------------------------------------------------
(* C21  Session expiry.  A call that ended with set_session leaves the     *)
(* user's entry expiring one hour after the write, whatever the entry's    *)
(* age was; and a call that loads when the entry it found is past its      *)
(* expiry works on a history that begins with its own user message.        *)
LoadedAfterExpiry(t) ==
    /\ turn[t].pc \notin {"idle", "get_session"}
    /\ turn[t].pre.redis[Key(t)].present
    /\ turn[t].load_at >= turn[t].pre.redis[Key(t)].expire_at

C21_SessionExpiry ==
    \A t \in Slots :
        /\ (Done(t) /\ LastCall(t) = "set_session") =>
              /\ redis[Key(t)].present
              /\ redis[Key(t)].expire_at = turn[t].ended_at + 3600
        /\ LoadedAfterExpiry(t) =>
              /\ turn[t].history[1] = Msg("user", turn[t].message)
              /\ Len(turn[t].history) <= 2

(* an hour after the first turn the same user writes again: the turn ends  *)
(* as the first turn of a new conversation and the two messages of the     *)
(* old one are gone                                                        *)
C21_Witness ==
    \E t \in Slots :
        /\ LoadedAfterExpiry(t)
        /\ Len(turn[t].pre.redis[Key(t)].value) = 2
        /\ Done(t) /\ LastCall(t) = "set_session"
        /\ Len(redis[Key(t)].value) = 2
        /\ redis[Key(t)].expire_at = 2 * SessionTTL

----------------------------------------------------------------------------
(* C22  Strict step order within a turn.  The calls of a turn begin with   *)
(* get_session and then get_ai_response, each made once; no store has      *)
(* changed while the model call has not completed; set_session is the      *)
(* third call; and delete_session is called only after the commit of User  *)
(* and Conversation and, for a non-empty data field, after                 *)
(* create_collected_data, none of them having raised.                      *)
Called(t, name) == Position(turn[t].calls, name) > 0

CalledOnce(t, name) ==
    Cardinality({i \in 1..Len(turn[t].calls) : turn[t].calls[i] = name}) <= 1

C22_StrictStepOrder ==
    \A t \in Slots :
        LET calls == turn[t].calls
            D == DictGet(turn[t].final_data, "data", JObj(<<>>))
        IN  /\ Len(calls) >= 1 => calls[1] = "get_session"
            /\ Len(calls) >= 2 => calls[2] = "get_ai_response"
            /\ \A i \in 1..Len(calls) : CalledOnce(t, calls[i])
            /\ turn[t].pc \in {"get_session", "get_ai_response"} =>
                  redis = turn[t].pre.redis /\ DbUnchanged(t)
            /\ Called(t, "set_session") => Position(calls, "set_session") = 3
            /\ Called(t, "delete_session") =>
                  /\ turn[t].exc = ""
                  /\ Called(t, "commit")
                  /\ Position(calls, "commit") < Position(calls, "delete_session")
                  /\ Len(conversations) = Len(turn[t].pre.conversations) + 1
                  /\ Truthy(D) =>
                        /\ Called(t, "create_collected_data")
                        /\ Position(calls, "commit") < Position(calls, "create_collected_data")
                        /\ Position(calls, "create_collected_data")
                              < Position(calls, "delete_session")
                        /\ Len(collected_data) = Len(turn[t].pre.collected_data) + 1

(* a Complete turn with data that made its six calls in order *)
C22_Witness ==
    \E t \in Slots :
        /\ turn[t].calls = <<"get_session", "get_ai_response", "select_user", "commit",
                             "create_collected_data", "delete_session">>
        /\ Len(PriorStored(t)) = 2
        /\ ~redis[Key(t)].present

----------------------------------------------------------------------------
(* C23  Lost update under same-user concurrency.  When two calls of one    *)
(* user loaded the same history and both ended as Ongoing turns, both      *)
(* answered 200 with the model's text, and the user's session entry never  *)
(* holds both user messages: the later save was built from the history     *)
(* loaded before the earlier one.                                          *)
Prior(t) == SubSeq(turn[t].history, 1, Len(turn[t].history) - 2)

SavedOngoing(t) ==
    Done(t) /\ turn[t].branch = "ongoing" /\ turn[t].outcome = "returned"

SameLoad(s, t) ==
    /\ s # t
    /\ SavedOngoing(s) /\ SavedOngoing(t)
    /\ turn[s].user_id = turn[t].user_id
    /\ Prior(s) = Prior(t)

StoredUserMessage(key, message) ==
    /\ redis[key].present
    /\ \E i \in 1..Len(redis[key].value) : redis[key].value[i] = <<"user", message>>

C23_LostUpdate ==
    \A s, t \in Slots :
        SameLoad(s, t) =>
            /\ turn[s].response = [status |-> 200, message |-> turn[s].ai_response.v]
            /\ turn[t].response = [status |-> 200, message |-> turn[t].ai_response.v]
            /\ ~(/\ StoredUserMessage(Key(s), turn[s].message)
                 /\ StoredUserMessage(Key(t), turn[t].message))

(* two calls of one user in flight together, both answered; the entry is   *)
(* the history of one of them and the other's message is in no store       *)
C23_Witness ==
    \E s, t \in Slots :
        /\ SameLoad(s, t)
        /\ redis[Key(t)].value = DumpHistory(turn[t].history)
        /\ ~StoredUserMessage(Key(s), turn[s].message)
        /\ turn[s].response.message = T_PLAIN /\ turn[t].response.message = T_PLAIN
        /\ conversations = <<>>

----------------------------------------------------------------------------
(* C24  One trailing user message at generation time.  The history a call  *)
(* hands to the completion client ends with the new user message, and      *)
(* every earlier message of role user is followed at once by a message of  *)
(* role assistant.                                                         *)
AtGeneration(t) == turn[t].pc = "get_ai_response"

C24_OneTrailingUserMessage ==
    \A t \in Slots :
        AtGeneration(t) =>
            LET h == turn[t].history
            IN  /\ h # <<>>
                /\ h[Len(h)] = Msg("user", turn[t].message)
                /\ \A i \in 1..(Len(h) - 1) :
                      /\ h[i].role = "user" => h[i + 1].role = "assistant"
                      /\ h[i].role = "assistant" => h[i + 1].role = "user"
                /\ h[1].role = "user"

(* the second message of a conversation about to be sent to the model *)
C24_Witness ==
    \E t \in Slots :
        /\ AtGeneration(t)
        /\ Len(turn[t].history) = 3
        /\ turn[t].history[1].role = "user"
        /\ turn[t].history[2] = Msg("assistant", T_PLAIN)
        /\ turn[t].history[3].role = "user"

----------------------------------------------------------------------------
(* C25  Model input assembly.  A call makes the model call at most once    *)
(* and has made it when it ends; the message list sent is the system       *)
(* directive, then the history the call loaded (nothing when there was no  *)
(* live entry), then the new user message, and nothing else.               *)
C25_ModelInputAssembly ==
    \A t \in Slots :
        /\ CalledOnce(t, "get_ai_response")
        /\ Done(t) => Called(t, "get_ai_response")
        /\ Called(t, "get_ai_response") =>
              turn[t].sent =
                  <<Msg("system", SYSTEM_PROMPT)>>
                  \o LoadHistory(PriorStored(t))
                  \o <<Msg("user", turn[t].message)>>

(* the second turn of a conversation: four messages were sent *)
C25_Witness ==
    \E t \in Slots :
        /\ Called(t, "get_ai_response")
        /\ Len(turn[t].sent) = 4
        /\ turn[t].sent[1].role = "system"
        /\ turn[t].sent[3] = Msg("assistant", T_PLAIN)
        /\ turn[t].sent[4] = Msg("user", turn[t].message)

(* C29  The completion client does not mutate its input.  After the model  *)
(* call the list that was passed to get_ai_response is the history the     *)
(* call had built, element for element, and the message list sent is the   *)
(* system directive followed by that history.                              *)
Given(t) ==
    IF turn[t].branch = "failed"
    THEN turn[t].history
    ELSE SubSeq(turn[t].history, 1, Len(turn[t].history) - 1)

C29_InputNotMutated ==
    \A t \in Slots :
        Called(t, "get_ai_response") =>
            /\ turn[t].arg_after = Given(t)
            /\ Len(turn[t].sent) = Len(Given(t)) + 1
            /\ turn[t].sent[1] = Msg("system", SYSTEM_PROMPT)
            /\ \A i \in 1..Len(Given(t)) : turn[t].sent[i + 1] = Given(t)[i]

(* a model call with a history of three messages, answered *)
C29_Witness ==
    \E t \in Slots :
        /\ Called(t, "get_ai_response")
        /\ Len(turn[t].arg_after) = 3
        /\ turn[t].arg_after[3] = Msg("user", turn[t].message)
        /\ Len(turn[t].history) = 4

(* C30  Failure mapping of the completion client.  After an APIError, an   *)
(* answer without choices, or a first choice whose content is None or      *)
(* empty, get_ai_response has returned None; and whenever it returned None *)
(* or the empty string the call ended as Failed: it returned None without  *)
(* raising and every store is as the call found it.                        *)
BackendFailed(outcome) ==
    \/ outcome.kind \in {"APIError", "no_choices"}
    \/ outcome.kind = "choice" /\ (outcome.content.is_none \/ outcome.content.v = "")

C30_ClientFailureMapping ==
    \A t \in Slots :
        Called(t, "get_ai_response") =>
            /\ BackendFailed(turn[t].backend) => turn[t].ai_response = NoneStr
            /\ turn[t].ai_response \in {NoneStr, Some("")} =>
                  /\ Done(t) /\ turn[t].branch = "failed"
                  /\ turn[t].outcome = "returned" /\ turn[t].result = NoneStr
                  /\ redis = turn[t].pre.redis /\ DbUnchanged(t)

(* an answer without choices for a user with a session: the IndexError is  *)
(* caught and the webhook sends the fallback                               *)
C30_Witness ==
    \E t \in Slots :
        /\ Done(t) /\ turn[t].backend = NoChoices
        /\ turn[t].pre.redis[Key(t)].present
        /\ turn[t].result = NoneStr
        /\ turn[t].response = [status |-> 200, message |-> FALLBACK_REPLY]

----------------------------------------------------------------------------
(* C28  Two-transaction gap.  In a Complete turn whose data field is not   *)
(* empty, once the commit of User and Conversation has returned and until  *)
(* create_collected_data has succeeded, the tables hold the completed      *)
(* Conversation of the call and no CollectedData row for it; that is the   *)
(* state left for good when create_collected_data raises (or the process   *)
(* stops there).                                                           *)
BetweenTransactions(t) ==
    /\ Committed(t)
    /\ IsDict(turn[t].final_data)
    /\ Truthy(DictGet(turn[t].final_data, "data", JObj(<<>>)))
    /\ \/ turn[t].pc = "collect"
       \/ turn[t].outcome = "raised" /\ LastCall(t) = "create_collected_data"

C28_TwoTransactionGap ==
    \A t \in Slots :
        BetweenTransactions(t) =>
            /\ Len(conversations) = Len(turn[t].pre.conversations) + 1
            /\ conversations[Len(conversations)].conversation_id = turn[t].conversation
            /\ conversations[Len(conversations)].status = "completed"
            /\ HasUser(users, turn[t].user_id)
            /\ collected_data = turn[t].pre.collected_data
            /\ \A i \in 1..Len(collected_data) :
                  collected_data[i].conversation_id # turn[t].conversation

(* create_collected_data raised: the call is over, the Conversation that   *)
(* carries {"full_name": "John"} in its last message is in the table and   *)
(* the collected_data table is empty                                       *)
C28_Witness ==
    \E t \in Slots :
        /\ Done(t) /\ BetweenTransactions(t)
        /\ turn[t].ai_response = Some(T_DONE_DATA)
        /\ turn[t].exc = "SQLAlchemyError"
        /\ Len(conversations) = 1 /\ conversations[1].status = "completed"
        /\ collected_data = <<>>

----------------------------------------------------------------------------
(* C26  Boundary reply mapping.  For a request whose signature validates   *)
(* and whose form is well formed, the handler has called process_message   *)
(* and, when the call is over, has answered 200: with the returned text    *)
(* when process_message returned a text, with the fixed fallback message   *)
(* when it returned None.                                                  *)
Verified(t) ==
    turn[t].signature = Some(Sign(TWILIO_AUTH_TOKEN, turn[t].user_id, turn[t].message))

C26_BoundaryReplyMapping ==
    \A t \in Slots :
        (Done(t) /\ Verified(t) /\ turn[t].well_formed) =>
            /\ turn[t].calls # <<>>
            /\ turn[t].calls[1] = "get_session"
            /\ turn[t].response.status = 200
            /\ ~turn[t].result.is_none => turn[t].response.message = turn[t].result.v
            /\ turn[t].result.is_none => turn[t].response.message = FALLBACK_REPLY

(* C27  Signature gate.  A request without a signature (no header, or an   *)
(* empty one) is answered 400 and one whose signature is not the one of    *)
(* the request is answered 403; for both process_message is not called and *)
(* the session store and the tables are as the request found them; and a   *)
(* call of process_message has a request with a valid signature behind it. *)
Unsigned(t) == turn[t].signature.is_none \/ turn[t].signature.v = ""

Untouched(t) ==
    /\ Done(t)
    /\ turn[t].calls = <<>>
    /\ redis = turn[t].pre.redis
    /\ DbUnchanged(t)

C27_SignatureGate ==
    \A t \in Slots :
        turn[t].pc # "idle" =>
            /\ Unsigned(t) => turn[t].response.status = 400 /\ Untouched(t)
            /\ (~Unsigned(t) /\ ~Verified(t)) =>
                  turn[t].response.status = 403 /\ Untouched(t)
            /\ turn[t].calls # <<>> => Verified(t)

(* the user has a session; a request carrying the signature of another     *)
(* body is answered 403 and the session is as it was                       *)
C27_Witness ==
    \E t \in Slots :
        /\ Done(t)
        /\ turn[t].signature = Some(Sign(TWILIO_AUTH_TOKEN, turn[t].user_id, "Send money"))
        /\ turn[t].response.status = 403
        /\ turn[t].pre.redis[Key(t)].present
        /\ redis = turn[t].pre.redis

----------------------------------------------------------------------------
(* C31  Fresh start after completion.  When the latest earlier call of a   *)
(* user was a Complete turn that returned, the next call of that user      *)
(* finds no session to load, hands the model the system prompt and the new *)
(* user message alone, and, when it ends as an Ongoing turn, leaves a      *)
(* session of exactly two messages: the user message and the model's text. *)
AfterCompletion(t) ==
    LET earlier == turn[t].trail[turn[t].user_id]
    IN  /\ turn[t].pc # "idle"
        /\ earlier # <<>>
        /\ earlier[Len(earlier)].branch = "complete"
        /\ earlier[Len(earlier)].outcome = "returned"

C31_FreshStartAfterCompletion ==
    \A t \in Slots :
        AfterCompletion(t) =>
            /\ turn[t].pc = "get_session" => RedisGet(Key(t)).is_none
            /\ turn[t].pc = "get_ai_response" =>
                   turn[t].history = <<Msg("user", turn[t].message)>>
            /\ turn[t].sent # <<>> =>
                   turn[t].sent = <<Msg("system", SYSTEM_PROMPT),
                                    Msg("user", turn[t].message)>>
            /\ SavedOngoing(t) =>
                   /\ redis[Key(t)].present
                   /\ redis[Key(t)].value =
                        <<<<"user", turn[t].message>>,
                          <<"assistant", turn[t].ai_response.v>>>>

(* a conversation of two calls that ended with a stored Conversation of    *)
(* four messages, and the user's next call saved as a two-message session  *)
C31_Witness ==
    \E t \in Slots :
        /\ AfterCompletion(t)
        /\ Len(turn[t].trail[turn[t].user_id]) = 2
        /\ turn[t].trail[turn[t].user_id][1].branch = "ongoing"
        /\ SavedOngoing(t)
        /\ Len(redis[Key(t)].value) = 2
        /\ \E i \in 1..Len(conversations) :
               Len(conversations[i].conversation_history) = 4

----------------------------------------------------------------------------
(* C32  Every turn ends.  Each adapter call returning or raising in the    *)
(* end, every call of process_message that has begun ends: it returns a    *)
(* text, returns None, or lets an exception out, and only one of the       *)
(* three; on the way it makes no adapter call twice.                       *)
InFlight(t) == turn[t].pc \notin {"idle", "done"}

NoStepTwice(t) ==
    \A i, j \in 1..Len(turn[t].calls) :
        turn[t].calls[i] = turn[t].calls[j] => i = j

OneOutcome(t) ==
    \/ /\ turn[t].outcome = "returned" /\ turn[t].exc = ""
       /\ turn[t].result = NoneStr \/ turn[t].result.v # ""
    \/ /\ turn[t].outcome = "raised" /\ turn[t].exc # ""
       /\ turn[t].result = NoneStr

StraightLine ==
    \A t \in Slots :
        /\ NoStepTwice(t)
        /\ Done(t) => OneOutcome(t)
        /\ InFlight(t) => turn[t].outcome = "pending"

C32_EveryTurnEnds ==
    /\ []StraightLine
    /\ \A t \in Slots : InFlight(t) ~> Done(t)

(* two calls in flight together have ended, one with the reply of a        *)
(* completed conversation after all six steps, one with an exception       *)
C32_Witness ==
    \E s, t \in Slots :
        /\ Done(s) /\ turn[s].outcome = "raised" /\ turn[s].exc \in DbErrors
        /\ Done(t) /\ turn[t].outcome = "returned"
        /\ turn[t].calls = <<"get_session", "get_ai_response", "select_user", "commit",
                             "create_collected_data", "delete_session">>

----------------------------------------------------------------------------
(* C33  Deterministic classification.  Any two calls that were given the   *)
(* same text by the model took the same branch, whoever the user, whatever *)
(* the message, the loaded history and the durable tables.                 *)
AllEnded(t) ==
    UNION {{Trail(t)[u][i] : i \in 1..Len(Trail(t)[u])} : u \in UserIds}

C33_DeterministicClassification ==
    \A t \in Slots :
        \A a, b \in AllEnded(t) :
            (a.outcome # "refused" /\ b.outcome # "refused" /\ a.raw = b.raw) =>
                a.branch = b.branch

(* the same completion object answered to two users: to one on the first   *)
(* message with empty tables, to the other after an Ongoing turn, with the *)
(* first user's rows stored                                                *)
C33_Witness ==
    \E t \in Slots :
        \E u \in UserIds :
            /\ Done(t) /\ turn[t].user_id # u
            /\ turn[t].ai_response = Some(T_DONE_DATA)
            /\ turn[t].branch = "complete"
            /\ turn[t].pre.users # <<>>
            /\ Len(turn[t].trail[u]) = 1
            /\ turn[t].trail[u][1].raw = Some(T_DONE_DATA)
            /\ turn[t].trail[u][1].branch = "complete"

----------------------------------------------------------------------------
(* C34  Stored session shape.  However the calls interleave, every session *)
(* entry holds a history that is not empty, has an even number of          *)
(* messages, user and assistant in turn from a first user message to a     *)
(* last assistant message, no system message among them, and whose last    *)
(* message is no JSON text, so never a completion object.                  *)
WellShaped(h) ==
    /\ Len(h) > 0
    /\ Len(h) % 2 = 0
    /\ \A i \in 1..Len(h) :
          /\ h[i][1] = (IF i % 2 = 1 THEN "user" ELSE "assistant")
          /\ h[i][1] # "system"
    /\ h[1][1] = "user"
    /\ h[Len(h)][1] = "assistant"
    /\ ~JsonLoads(h[Len(h)][2]).ok

C34_StoredSessionShape ==
    \A k \in Keys : redis[k].present => WellShaped(redis[k].value)

(* a session stored by one call while another call of the same user, which *)
(* loaded before that save, is in flight with a completion object answered *)
C34_Witness ==
    \E t \in Slots :
        /\ turn[t].pc \notin {"idle", "done"}
        /\ turn[t].ai_response = Some(T_DONE_DATA)
        /\ Len(turn[t].history) = 2
        /\ redis[Key(t)].present
        /\ Len(redis[Key(t)].value) = 2

----------------------------------------------------------------------------
(* C35  One session effect per turn.  An ended call made at most one       *)
(* session write, fixed by its branch: an Ongoing turn called set_session  *)
(* once and never delete_session; a Complete turn none of whose            *)
(* persistence steps raised called delete_session once and never           *)
(* set_session; a Failed turn and a Complete turn with a persistence step  *)
(* that raised called neither.                                             *)
ExactlyOnce(t, name) ==
    Cardinality({i \in 1..Len(turn[t].calls) : turn[t].calls[i] = name}) = 1

C35_OneSessionEffectPerTurn ==
    \A t \in Slots :
        (Done(t) /\ turn[t].outcome # "refused") =>
            /\ turn[t].branch = "ongoing" =>
                   ExactlyOnce(t, "set_session") /\ ~Called(t, "delete_session")
            /\ (turn[t].branch = "complete" /\ ~PersistenceRaised(t)) =>
                   ExactlyOnce(t, "delete_session") /\ ~Called(t, "set_session")
            /\ (turn[t].branch = "failed"
                   \/ (turn[t].branch = "complete" /\ PersistenceRaised(t))) =>
                   ~Called(t, "set_session") /\ ~Called(t, "delete_session")

----------------------------------------------------------------------------
(* C36  Independence of distinct users.  A step of a call never changes    *)
(* the session entry, the User row, the Conversations or the CollectedData *)
(* of a user other than its own; and a call that is the only one of its    *)
(* user, however it interleaved with the calls of other users, ends with   *)
(* the session, the rows and the reply it would have ended with had it run *)
(* by itself from empty stores.                                            *)
Owner(u) ==
    {users[i].user_id : i \in {k \in 1..Len(users) : users[k].whatsapp_id = u}}

Estate(u) ==
    [session |-> redis[get_session_key(u)],
     users |-> SelectSeq(users, LAMBDA r : r.whatsapp_id = u),
     conversations |-> SelectSeq(conversations, LAMBDA c : c.user_id \in Owner(u)),
     collected_data |-> SelectSeq(collected_data, LAMBDA d : d.user_id \in Owner(u))]

OthersUntouched ==
    \A v \in UserIds :
        (\A t \in Slots : turn'[t].user_id = v => turn'[t] = turn[t]) =>
            Estate(v)' = Estate(v)

LoneCall(t) ==
    /\ Done(t)
    /\ nturns = Cardinality({s \in Slots : turn[s].pc # "idle"})
    /\ \A s \in Slots \ {t} : turn[s].user_id # turn[t].user_id

AsIfAlone(t) ==
    LET e == Estate(turn[t].user_id)
        text == turn[t].ai_response.v
        returned == turn[t].outcome = "returned"
    IN  /\ e.session =
             (IF turn[t].branch = "ongoing"
              THEN [present |-> TRUE,
                    value |-> <<<<"user", turn[t].message>>, <<"assistant", text>>>>,
                    expire_at |-> turn[t].ended_at + SessionTTL]
              ELSE NoEntry)
        /\ Len(e.users) = (IF Committed(t) THEN 1 ELSE 0)
        /\ Len(e.conversations) = (IF Committed(t) THEN 1 ELSE 0)
        /\ Committed(t) =>
               /\ e.conversations[1].status = "completed"
               /\ e.conversations[1].conversation_history =
                    <<Msg("user", turn[t].message),
                      Msg("assistant", JsonDumps(JsonLoads(text).value))>>
        /\ Len(e.collected_data) =
             (IF turn[t].branch = "complete" /\ returned THEN 1 ELSE 0)
        /\ (turn[t].branch = "complete" /\ returned) =>
               /\ e.collected_data[1].conversation_id = e.conversations[1].conversation_id
               /\ e.collected_data[1].data = DictGet(JsonLoads(text).value, "data", JNull)
        /\ turn[t].response =
             (IF turn[t].outcome = "raised" THEN [status |-> 500, message |-> ""]
              ELSE IF turn[t].branch = "failed"
                   THEN [status |-> 200, message |-> FALLBACK_REPLY]
              ELSE IF turn[t].branch = "ongoing"
                   THEN [status |-> 200, message |-> text]
              ELSE [status |-> 200,
                    message |-> DictGet(JsonLoads(text).value, "reply", JNull).lit])

C36_IndependenceOfUsers ==
    /\ [](\A t \in Slots : LoneCall(t) => AsIfAlone(t))
    /\ [][OthersUntouched]_vars

(* two users' first completions in flight together: the call that arrived  *)
(* second committed first, and each user's rows are the user's own         *)
C36_Witness ==
    \E s, t \in Slots :
        /\ s < t
        /\ LoneCall(s) /\ LoneCall(t)
        /\ turn[s].branch = "complete" /\ turn[s].outcome = "returned"
        /\ turn[t].branch = "complete" /\ turn[t].outcome = "returned"
        /\ users[1].whatsapp_id = turn[t].user_id
        /\ Len(collected_data) = 2

----------------------------------------------------------------------------
(* C37  No message lost when turns are serial.  With one call at a time,   *)
(* Redis healthy and no entry expiring: when the calls of a user since the *)
(* user's last returned Complete turn (or since the beginning) are k       *)
(* Ongoing turns, the user's session holds exactly 2k messages, the k user *)
(* messages in the order they arrived, each followed at once by the reply  *)
(* that was returned for it; for k = 0 there is no session.                *)
IsReset(e) == e.branch = "complete" /\ e.outcome = "returned"

IsOngoing(e) == e.branch = "ongoing" /\ e.outcome = "returned"

LastReset(calls) ==
    IF \E i \in 1..Len(calls) : IsReset(calls[i])
    THEN CHOOSE i \in 1..Len(calls) :
            /\ IsReset(calls[i])
            /\ \A j \in (i + 1)..Len(calls) : ~IsReset(calls[j])
    ELSE 0

SinceReset(calls) == SubSeq(calls, LastReset(calls) + 1, Len(calls))

Exchanges(calls) ==
    [i \in 1..(2 * Len(calls)) |->
        IF i % 2 = 1 THEN <<"user", calls[(i + 1) \div 2].message>>
                     ELSE <<"assistant", calls[i \div 2].result.v>>]

C37_NoMessageLostSerially ==
    \A t \in Slots :
        Done(t) =>
            \A u \in UserIds :
                LET since == SinceReset(Trail(t)[u])
                    entry == redis[get_session_key(u)]
                IN  (\A i \in 1..Len(since) : IsOngoing(since[i])) =>
                        /\ entry.present <=> since # <<>>
                        /\ entry.value = Exchanges(since)

(* after a completed conversation, two Ongoing turns of the same user: the *)
(* session holds both messages and both replies                            *)
C37_Witness ==
    \E t \in Slots :
        LET calls == Trail(t)[turn[t].user_id]
        IN  /\ Done(t)
            /\ Len(calls) = 3
            /\ IsReset(calls[1]) /\ IsOngoing(calls[2]) /\ IsOngoing(calls[3])
            /\ redis[Key(t)].value =
                 <<<<"user", calls[2].message>>, <<"assistant", T_PLAIN>>,
                   <<"user", calls[3].message>>, <<"assistant", T_PLAIN>>>>

----------------------------------------------------------------------------
(* C38  A successful turn never yields the fallback.  A call that returned *)
(* returned None or a text that is not empty; the webhook answered with    *)
(* the fallback message exactly when the call was a Failed turn, and an    *)
(* Ongoing or Complete turn that returned was answered with the text it    *)
(* returned; a call that raised was not answered with the fallback.        *)
C38_NeverEmptyResult ==
    \A t \in Slots :
        (Done(t) /\ turn[t].outcome # "refused") =>
            /\ turn[t].result # Some("")
            /\ turn[t].outcome = "returned" =>
                   /\ turn[t].result = NoneStr <=> turn[t].branch = "failed"
                   /\ turn[t].response.message = FALLBACK_REPLY
                          <=> turn[t].branch = "failed"
                   /\ turn[t].branch \in {"ongoing", "complete"} =>
                          turn[t].response = [status |-> 200, message |-> turn[t].result.v]
            /\ turn[t].outcome = "raised" =>
                   turn[t].response.message # FALLBACK_REPLY

(* a completion object whose reply field is the empty string: the call     *)
(* returned the default reply and the webhook sent it                      *)
C38_Witness ==
    \E t \in Slots :
        /\ Done(t) /\ turn[t].ai_response = Some(T_EMPTY_REPLY)
        /\ turn[t].branch = "complete"
        /\ turn[t].result = Some(DEFAULT_REPLY)
        /\ turn[t].response = [status |-> 200, message |-> DEFAULT_REPLY]

----------------------------------------------------------------------------
(* C39  User uniqueness under concurrency.  However Complete turns         *)
(* interleave, no two User rows have the same identity string.  A call     *)
(* whose commit broke the unique constraint found no User when it looked,  *)
(* ends raised at the commit with a User of its identity stored by another *)
(* call, has written no Conversation and has not called delete_session.    *)
LostTheRace(t) == Done(t) /\ turn[t].exc = "IntegrityError"

C39_UserUniqueness ==
    /\ \A i, j \in 1..Len(users) :
          users[i].whatsapp_id = users[j].whatsapp_id => i = j
    /\ \A t \in Slots :
          LostTheRace(t) =>
              /\ turn[t].outcome = "raised"
              /\ turn[t].calls = <<"get_session", "get_ai_response", "select_user", "commit">>
              /\ turn[t].user = 0
              /\ ~HasUser(turn[t].pre.users, turn[t].user_id)
              /\ HasUser(users, turn[t].user_id)
              /\ turn[t].conversation = 0
              /\ \A i \in 1..Len(conversations) :
                    conversations[i].conversation_history # turn[t].history
              /\ ~Called(t, "delete_session")

(* two first completions of one identity in flight together: both looked   *)
(* and found no User, one committed, the other's commit failed             *)
C39_Witness ==
    \E s, t \in Slots :
        /\ s # t
        /\ turn[s].user_id = turn[t].user_id
        /\ LostTheRace(t)
        /\ Committed(s)
        /\ Len(users) = 1
        /\ Len(conversations) = 1
        /\ conversations[1].conversation_history = turn[s].history

----------------------------------------------------------------------------
(* C40  Atomic first persistence step.  The commit of a call writes its    *)
(* Conversation, and its new User when it found none, in one step, the     *)
(* Conversation owned by that User; a commit that fails leaves users and   *)
(* conversations as they were; and in every state each User owns at least  *)
(* one Conversation.                                                       *)
EveryUserOwnsAConversation ==
    \A i \in 1..Len(users) :
        \E j \in 1..Len(conversations) :
            conversations[j].user_id = users[i].user_id

CommitIsAtomic ==
    \A t \in Slots :
        turn[t].pc = "commit" /\ turn'[t] # turn[t] =>
            IF turn'[t].outcome = "raised"
            THEN users' = users /\ conversations' = conversations
            ELSE /\ Len(conversations') = Len(conversations) + 1
                 /\ Len(users') = Len(users) + (IF turn[t].user = 0 THEN 1 ELSE 0)
                 /\ turn[t].user = 0 =>
                       /\ users'[Len(users')].whatsapp_id = turn[t].user_id
                       /\ conversations'[Len(conversations')].user_id =
                            users'[Len(users')].user_id

C40_AtomicFirstStep ==
    /\ []EveryUserOwnsAConversation
    /\ [][CommitIsAtomic]_vars

(* the commit of a first completion failed: the identity has no User and   *)
(* no Conversation holds the call's history, while the User that another   *)
(* call created owns its Conversation                                      *)
C40_Witness ==
    \E t \in Slots :
        /\ Done(t) /\ turn[t].exc = "SQLAlchemyError"
        /\ turn[t].calls[Len(turn[t].calls)] = "commit"
        /\ turn[t].user = 0
        /\ ~HasUser(users, turn[t].user_id)
        /\ Len(users) = 1 /\ Len(conversations) = 1
        /\ conversations[1].conversation_history # turn[t].history

====
